---- MODULE Spec2Model ----
(***************************************************************************)
(* A model of demcmc (src/src/demcmc): temperature bins, contribution      *)
(* functions, the forward model with its log-probability, and the staged   *)
(* MCMC driver predict_dem_emcee.                                          *)
(*                                                                         *)
(* Numbers.  The program computes in IEEE doubles; the model computes in   *)
(* exact rationals <<numerator, denominator>> (denominator > 0, lowest     *)
(* terms), so rounding is not modelled.  NaN is the pair <<0, 0>> and is   *)
(* absorbing, as in numpy.  The -inf that _log_prob returns is the pair    *)
(* <<-1, 0>>; the program never computes with it.                          *)
(*                                                                         *)
(* Quantities.  An astropy Quantity is a record [v |-> values, u |-> unit] *)
(* with integer values; to_value(unit) multiplies by the ratio of the      *)
(* units.                                                                  *)
(*                                                                         *)
(* Objects.  TempBins and ContFuncDiscrete instances live in the heaps     *)
(* tbs and cfs; the identity (id(), the hash) of an object is its index.   *)
(*                                                                         *)
(* Calls.  The result r of a nested call is bound through a one-element    *)
(* set, CHOOSE result \in {e(r) : r \in {call}} : TRUE, which is e(call)   *)
(* with the call evaluated once.                                           *)
(***************************************************************************)
EXTENDS Integers, Sequences, FiniteSets

VARIABLES
    tbs,        \* heap of TempBins objects
    tbArgs,     \* history: the edges argument each TempBins was built from
    gens,       \* the generators iter_bins() has returned
    cfs,        \* heap of ContFuncDiscrete objects
    cfArgs,     \* history: the (temps, values) each ContFuncDiscrete was built from
    cacheArr,   \* the lru_cache of ContFuncDiscrete._binned_arr
    cacheBinned, \* the lru_cache of ContFuncDiscrete.binned
    lines,      \* the EmissionLine objects
    drv,        \* the frame of predict_dem_emcee: its locals and its position
    thr,        \* calls running concurrently, and the array they share
    dems,       \* heap of DEMOutput objects
    files,      \* the netCDF files written, by path
    out         \* the outcome of the last call: a value or a raised exception

vars == <<tbs, tbArgs, gens, cfs, cfArgs, cacheArr, cacheBinned, lines, drv, thr, dems, files, out>>

\* What an action on one group of objects leaves alone.
NotTb == <<gens, cfs, cfArgs, cacheArr, cacheBinned, lines, drv, thr, dems, files>>
NotGen == <<tbs, tbArgs, cfs, cfArgs, cacheArr, cacheBinned, lines, drv, thr, dems, files>>
NotCf == <<tbs, tbArgs, gens, cacheArr, cacheBinned, lines, drv, thr, dems, files>>
NotCache == <<tbs, tbArgs, gens, cfs, cfArgs, lines, drv, thr, dems, files>>
AllButOut == <<tbs, tbArgs, gens, cfs, cfArgs, cacheArr, cacheBinned, lines, drv, thr, dems, files>>

\* The file system: path to content, no file written yet.
NoFiles == [path \in {} |-> <<>>]

\* No call is running concurrently.
ThrIdle == [shared |-> <<>>, start |-> <<>>, tasks |-> <<>>]

(***************************************************************************)
(* Bounds of the model.                                                    *)
(***************************************************************************)
MaxEdges == 3
MaxGens == 2

(***************************************************************************)
(* Sequences and exact arithmetic.                                         *)
(***************************************************************************)
None == "None"

Nothing == <<>>
Some(x) == <<x>>
IsSome(o) == o # <<>>
TheValue(o) == o[1]

Abs(x) == IF x < 0 THEN -x ELSE x

RECURSIVE GCD(_, _)
GCD(a, b) == IF b = 0 THEN a ELSE GCD(b, a % b)

NaN == <<0, 0>>

Rat(n, d) ==
    IF d = 0 THEN NaN
    ELSE LET g == GCD(Abs(n), Abs(d))
             s == IF d < 0 THEN -1 ELSE 1
         IN  <<(s * n) \div g, (s * d) \div g>>

NegInf == <<-1, 0>>

IsNaN(a) == a[2] = 0
IsFinite(a) == a[2] > 0
RInt(n) == <<n, 1>>
RAdd(a, b) == IF IsNaN(a) \/ IsNaN(b) THEN NaN ELSE Rat(a[1] * b[2] + b[1] * a[2], a[2] * b[2])
RNeg(a) == IF IsNaN(a) THEN NaN ELSE <<-a[1], a[2]>>
RSub(a, b) == RAdd(a, RNeg(b))
RMul(a, b) == IF IsNaN(a) \/ IsNaN(b) THEN NaN ELSE Rat(a[1] * b[1], a[2] * b[2])
RDiv(a, b) == IF IsNaN(a) \/ IsNaN(b) THEN NaN ELSE Rat(a[1] * b[2], a[2] * b[1])
RSquare(a) == RMul(a, a)
RLess(a, b) == ~IsNaN(a) /\ ~IsNaN(b) /\ a[1] * b[2] < b[1] * a[2]

RECURSIVE RSum(_)
RSum(s) == IF s = <<>> THEN RInt(0) ELSE RAdd(s[1], RSum(Tail(s)))

RECURSIVE SeqsOver(_, _)
SeqsOver(S, n) ==
    IF n = 0 THEN {<<>>}
    ELSE LET shorter == SeqsOver(S, n - 1)
         IN  shorter \cup {Append(s, x) : s \in {t \in shorter : Len(t) = n - 1}, x \in S}

(***************************************************************************)
(* Units (astropy.units).                                                  *)
(***************************************************************************)
TempUnits == {"K", "daK", "MK"}

Scale(u) ==
    CASE u = "K" -> 1 [] u = "daK" -> 10 [] u = "MK" -> 1000000
      [] u = "cm-5" -> 1 [] u = "mm-5" -> 100000
      [] OTHER -> 1

IsTemperature(u) == u \in TempUnits

Quantity(v, u) == [v |-> v, u |-> u]

ToValueK(q) == [i \in 1..Len(q.v) |-> q.v[i] * Scale(q.u)]

(***************************************************************************)
(* Outcomes of a call: what it was called on and with, and either the      *)
(* value it returned or the exception it raised.                           *)
(***************************************************************************)
Returned(op, arg, val) == [op |-> op, arg |-> arg, err |-> "none", val |-> val]
Raised(op, arg, err) == [op |-> op, arg |-> arg, err |-> err, val |-> None]
RaisedWith(op, arg, err, detail) == [op |-> op, arg |-> arg, err |-> err, val |-> detail]

(***************************************************************************)
(* TempBins (dem.py).                                                      *)
(***************************************************************************)
Diff(s) == [i \in 1..(Len(s) - 1) |-> s[i + 1] - s[i]]

\* __init__ stores the edges and their values in kelvin; the cached
\* properties are computed at their first read.
NewTempBins(edges) ==
    [edges |-> edges, edges_arr |-> ToValueK(edges),
     bin_widths |-> Nothing, bin_widths_arr |-> Nothing, bin_centers |-> Nothing]

\* @u.quantity_input(edges=u_temp): the argument must convert to kelvin.
InitAcceptsAnyUnit(edges) == TRUE

InitAccepts(edges) == IsTemperature(edges.u)

TempBinsInit(edges) ==
    /\ IF InitAccepts(edges)
       THEN /\ tbs' = Append(tbs, NewTempBins(edges))
            /\ tbArgs' = Append(tbArgs, edges)
            /\ out' = Returned("TempBins", edges, Len(tbs) + 1)
       ELSE /\ out' = Raised("TempBins", edges, "UnitsError")
            /\ UNCHANGED <<tbs, tbArgs>>
    /\ UNCHANGED NotTb

\* The edges setter: raises, assigns nothing.
SetEdgesAssigns(b, val) ==
    /\ b \in 1..Len(tbs)
    /\ tbs' = [tbs EXCEPT ![b].edges = val, ![b].edges_arr = ToValueK(val)]
    /\ out' = Returned("edges.setter", <<b, val>>, None)
    /\ UNCHANGED <<tbArgs, NotTb>>

SetEdges(b, val) ==
    /\ b \in 1..Len(tbs)
    /\ out' = Raised("edges.setter", <<b, val>>, "RuntimeError")
    /\ UNCHANGED AllButOut

\* np.diff(self.edges): a Quantity in the unit of the edges.
BinWidthsOf(tb) == Quantity(Diff(tb.edges.v), tb.edges.u)

BinWidthsArrOwnUnit(tb) == Diff(tb.edges.v)

\* np.diff(self._edges_arr): bare numbers, in kelvin.
BinWidthsArrOf(tb) == Diff(tb.edges_arr)

\* (self.edges[:-1] + self.edges[1:]) / 2, in the unit of the edges.
BinCentersHalfWidth(tb) ==
    Quantity([i \in 1..(Len(tb.edges.v) - 1) |-> Rat(tb.edges.v[i + 1] - tb.edges.v[i], 2)], tb.edges.u)

BinCentersOf(tb) ==
    Quantity([i \in 1..(Len(tb.edges.v) - 1) |-> Rat(tb.edges.v[i] + tb.edges.v[i + 1], 2)], tb.edges.u)

\* functools.cached_property: the first read computes and stores, later
\* reads return what is stored.
GetBinWidths(b) ==
    /\ b \in 1..Len(tbs)
    /\ LET val == IF IsSome(tbs[b].bin_widths) THEN TheValue(tbs[b].bin_widths) ELSE BinWidthsOf(tbs[b])
       IN  /\ tbs' = [tbs EXCEPT ![b].bin_widths = Some(val)]
           /\ out' = Returned("bin_widths", b, val)
    /\ UNCHANGED <<tbArgs, NotTb>>

\* temp_bins._bin_widths_arr read on the heap h: the value, and the heap
\* with the value stored.
WidthsArrRead(h, b) ==
    LET val == IF IsSome(h[b].bin_widths_arr) THEN TheValue(h[b].bin_widths_arr) ELSE BinWidthsArrOf(h[b])
    IN  [val |-> val, tbs |-> [h EXCEPT ![b].bin_widths_arr = Some(val)]]

GetBinWidthsArr(b) ==
    /\ b \in 1..Len(tbs)
    /\ tbs' = WidthsArrRead(tbs, b).tbs
    /\ out' = Returned("_bin_widths_arr", b, WidthsArrRead(tbs, b).val)
    /\ UNCHANGED <<tbArgs, NotTb>>

GetBinCenters(b) ==
    /\ b \in 1..Len(tbs)
    /\ LET val == IF IsSome(tbs[b].bin_centers) THEN TheValue(tbs[b].bin_centers) ELSE BinCentersOf(tbs[b])
       IN  /\ tbs' = [tbs EXCEPT ![b].bin_centers = Some(val)]
           /\ out' = Returned("bin_centers", b, val)
    /\ UNCHANGED <<tbArgs, NotTb>>

\* __len__: int(self.edges.size - 1).
LenOf(tb) == Len(tb.edges.v) - 1

\* len(bins): Python refuses a negative __len__.
LenCall(b) ==
    /\ b \in 1..Len(tbs)
    /\ out' = IF LenOf(tbs[b]) < 0
              THEN Raised("len", b, "ValueError")
              ELSE Returned("len", b, LenOf(tbs[b]))
    /\ UNCHANGED AllButOut

\* iter_bins(): every call returns a new generator, positioned before the
\* first bin.
IterBins(b) ==
    /\ b \in 1..Len(tbs)
    /\ Len(gens) < MaxGens
    /\ gens' = Append(gens, [b |-> b, i |-> 0, state |-> "running", yielded |-> <<>>])
    /\ out' = Returned("iter_bins", b, Len(gens) + 1)
    /\ UNCHANGED NotGen

\* The pair the generator yields at index i (0-based, as in the code).
YieldAt(tb, i) == <<Quantity(<<tb.edges.v[i + 1]>>, tb.edges.u), Quantity(<<tb.edges.v[i + 2]>>, tb.edges.u)>>

\* next(generator): for i in range(len(self)): yield edges[i], edges[i + 1].
GenNext(g) ==
    /\ g \in 1..Len(gens)
    /\ gens[g].state = "running"
    /\ LET gen == gens[g]
           tb == tbs[gen.b]
       IN  IF LenOf(tb) < 0
           THEN /\ gens' = [gens EXCEPT ![g].state = "raised"]
                /\ out' = Raised("next", g, "ValueError")
           ELSE IF gen.i < LenOf(tb)
           THEN /\ gens' = [gens EXCEPT ![g].i = gen.i + 1,
                                        ![g].yielded = Append(gen.yielded, YieldAt(tb, gen.i))]
                /\ out' = Returned("next", g, YieldAt(tb, gen.i))
           ELSE /\ gens' = [gens EXCEPT ![g].state = "exhausted"]
                /\ out' = Raised("next", g, "StopIteration")
    /\ UNCHANGED NotGen

(***************************************************************************)
(* ContFuncDiscrete (emission.py): construction and the setters.           *)
(***************************************************************************)
NewContFunc(temps, values) == [temps |-> temps, values |-> values]

\* __init__: temps and values are 1-D (always so here) and of equal size.
ContFuncInit(temps, values) ==
    /\ IF Len(temps.v) # Len(values)
       THEN /\ out' = Raised("ContFuncDiscrete", <<temps, values>>, "ValueError")
            /\ UNCHANGED <<cfs, cfArgs>>
       ELSE /\ cfs' = Append(cfs, NewContFunc(temps, values))
            /\ cfArgs' = Append(cfArgs, <<temps, values>>)
            /\ out' = Returned("ContFuncDiscrete", <<temps, values>>, Len(cfs) + 1)
    /\ UNCHANGED NotCf

\* The temps and values setters: raise, assign nothing.
SetTemps(c, val) ==
    /\ c \in 1..Len(cfs)
    /\ out' = Raised("temps.setter", <<c, val>>, "RuntimeError")
    /\ UNCHANGED AllButOut

SetValues(c, val) ==
    /\ c \in 1..Len(cfs)
    /\ out' = Raised("values.setter", <<c, val>>, "RuntimeError")
    /\ UNCHANGED AllButOut

(***************************************************************************)
(* ContFuncDiscrete (emission.py): binning.                                *)
(***************************************************************************)
\* atol = 1 * u.K
Tolerance == 1

\* u.isclose(t, self._temps, atol=1 * u.K, rtol=0), both sides in kelvin.
IsCloseStrict(a, b) == Abs(a - b) < Tolerance

IsClose(a, b) == Abs(a - b) <= Tolerance

\* _check_bin_edges: the edges that are close to no sample temperature, in
\* the order of the edges, as a Quantity in the unit of the edges.
MissingEdges(cf, tb) ==
    LET tempsK == ToValueK(cf.temps)
        edgesK == ToValueK(tb.edges)
        IsMissing(i) == \A j \in 1..Len(tempsK) : ~IsClose(edgesK[i], tempsK[j])
        idx == SelectSeq([i \in 1..Len(edgesK) |-> i], IsMissing)
    IN  Quantity([k \in 1..Len(idx) |-> tb.edges.v[idx[k]]], tb.edges.u)

\* pd.cut refuses decreasing bins, repeated bins (unless there are exactly
\* two), and indexes bins[0].
CutError(bins) ==
    IF \E i \in 1..(Len(bins) - 1) : bins[i + 1] < bins[i]
    THEN <<"ValueError", "bins must increase monotonically">>
    ELSE IF Cardinality({bins[i] : i \in 1..Len(bins)}) < Len(bins) /\ Len(bins) # 2
    THEN <<"ValueError", "Bin edges must be unique">>
    ELSE IF Len(bins) = 0
    THEN <<"IndexError", "index 0 is out of bounds">>
    ELSE <<"none", "">>

\* pd.cut(x, bins, include_lowest=True): ids = bins.searchsorted(x, side="left"),
\* ids[x == bins[0]] = 1, and ids 0 and len(bins) are no group (0 here).
CutGroupExclusive(x, bins) ==
    LET id == Cardinality({j \in 1..Len(bins) : bins[j] < x})
    IN  IF id = 0 \/ id = Len(bins) THEN 0 ELSE id

CutGroup(x, bins) ==
    LET below == Cardinality({j \in 1..Len(bins) : bins[j] < x})
        id == IF x = bins[1] THEN 1 ELSE below
    IN  IF id = 0 \/ id = Len(bins) THEN 0 ELSE id

\* df.groupby("Groups").mean()["values"].values: one mean per interval, in
\* the order of the intervals; the mean of an empty group is NaN.
GroupMeans(cf, tb) ==
    LET tempsK == ToValueK(cf.temps)
        edgesK == ToValueK(tb.edges)
        InGroup(i) == SelectSeq([k \in 1..Len(tempsK) |-> k],
                                LAMBDA k : CutGroup(tempsK[k], edgesK) = i)
    IN  [i \in 1..(Len(edgesK) - 1) |->
            LET members == InGroup(i)
            IN  Rat(RSum([m \in 1..Len(members) |-> RInt(cf.values[members[m]])])[1], Len(members))]

\* The body of _binned_arr: the check, then the cut and the means.
BinnedArrCompute(cf, tb) ==
    LET missing == MissingEdges(cf, tb)
        cut == CutError(ToValueK(tb.edges))
    IN  IF Len(missing.v) > 0
        THEN [err |-> "ValueError", val |-> [msg |-> "missing bin edges", edges |-> missing]]
        ELSE IF cut[1] # "none"
        THEN [err |-> cut[1], val |-> [msg |-> cut[2], edges |-> Quantity(<<>>, tb.edges.u)]]
        ELSE [err |-> "none", val |-> GroupMeans(cf, tb)]

\* functools.lru_cache(maxsize=None): entries [key, val], the key being the
\* identities of the contribution function and of the bins.
CacheHit(cache, key) == \E e \in cache : e.key = key
CacheGet(cache, key) == (CHOOSE e \in cache : e.key = key).val
CachePut(cache, key, val) == cache \cup {[key |-> key, val |-> val]}

\* self._binned_arr(temp_bins) through its cache: the outcome and the cache
\* afterwards.  An exception is not cached.
BinnedArrCall(c, b, cache) ==
    IF CacheHit(cache, <<c, b>>)
    THEN [err |-> "none", val |-> CacheGet(cache, <<c, b>>), cache |-> cache]
    ELSE CHOOSE result \in
             {[err |-> r.err, val |-> r.val,
                          cache |-> IF r.err = "none" THEN CachePut(cache, <<c, b>>, r.val) ELSE cache]
                 : r \in {BinnedArrCompute(cfs[c], tbs[b])}} : TRUE

BinnedArr(c, b) ==
    /\ c \in 1..Len(cfs)
    /\ b \in 1..Len(tbs)
    /\ LET r == BinnedArrCall(c, b, cacheArr)
       IN  /\ cacheArr' = r.cache
           /\ out' = IF r.err = "none"
                     THEN Returned("_binned_arr", <<c, b>>, r.val)
                     ELSE RaisedWith("_binned_arr", <<c, b>>, r.err, r.val)
    /\ UNCHANGED <<cacheBinned, NotCache>>

\* binned(temp_bins), cached as well: self._binned_arr(temp_bins) * u.cm**5 / u.K.
Binned(c, b) ==
    /\ c \in 1..Len(cfs)
    /\ b \in 1..Len(tbs)
    /\ IF CacheHit(cacheBinned, <<c, b>>)
       THEN /\ out' = Returned("binned", <<c, b>>, CacheGet(cacheBinned, <<c, b>>))
            /\ UNCHANGED <<cacheArr, cacheBinned>>
       ELSE LET r == BinnedArrCall(c, b, cacheArr)
            IN  /\ cacheArr' = r.cache
                /\ IF r.err = "none"
                   THEN /\ cacheBinned' = CachePut(cacheBinned, <<c, b>>, Quantity(r.val, "cm5/K"))
                        /\ out' = Returned("binned", <<c, b>>, Quantity(r.val, "cm5/K"))
                   ELSE /\ out' = RaisedWith("binned", <<c, b>>, r.err, r.val)
                        /\ UNCHANGED cacheBinned
    /\ UNCHANGED NotCache

(***************************************************************************)
(* BinnedDEM (dem.py), EmissionLine (emission.py) and the log-probability  *)
(* (mcmc.py).  A call that bins a contribution function or reads the bin   *)
(* widths fills the caches; st = [cache, tbs] is the lru_cache of          *)
(* _binned_arr and the TempBins heap before the call, and the result       *)
(* carries them as they are after it.                                      *)
(***************************************************************************)
\* BinnedDEM.__init__: _values_arr = values.to_value(u_dem).
NewBinnedDEM(b, values) ==
    [temp_bins |-> b, values |-> values,
     values_arr |-> [i \in 1..Len(values.v) |-> RInt(values.v[i] * Scale(values.u))]]

NewEmissionLine(c, intensity, sigma) ==
    [cont_func |-> c, intensity_obs |-> intensity, sigma_intensity_obs |-> sigma]

\* np.sum(cont_func * dem_values * widths)
SumOfProducts(cont_func, dem_values, widths) ==
    RSum([i \in 1..Len(cont_func) |-> RMul(RMul(cont_func[i], dem_values[i]), RInt(widths[i]))])

\* EmissionLine._I_pred(temp_bins, dem_values)
IPredBare(line, b, dem_values, st) ==
    CHOOSE result \in
        {IF cf.err # "none"
            THEN [err |-> cf.err, val |-> cf.val, cache |-> cf.cache, tbs |-> st.tbs]
            ELSE LET w == WidthsArrRead(st.tbs, b)
                 IN  [err |-> "none", val |-> SumOfProducts(cf.val, dem_values, w.val),
                      cache |-> cf.cache, tbs |-> w.tbs]
            : cf \in {BinnedArrCall(line.cont_func, b, st.cache)}} : TRUE

\* EmissionLine.I_pred(dem)
IPred(line, dem, st) ==
    CHOOSE result \in
        {IF cf.err # "none"
            THEN [err |-> cf.err, val |-> cf.val, cache |-> cf.cache, tbs |-> st.tbs]
            ELSE LET w == WidthsArrRead(st.tbs, dem.temp_bins)
                 IN  [err |-> "none", val |-> SumOfProducts(cf.val, dem.values_arr, w.val),
                      cache |-> cf.cache, tbs |-> w.tbs]
            : cf \in {BinnedArrCall(line.cont_func, dem.temp_bins, st.cache)}} : TRUE

\* -float(((line.intensity_obs - intensity_pred) / line.sigma_intensity_obs) ** 2)
LogProbValueHalved(line, pred) ==
    RMul(Rat(-1, 2), RSquare(RDiv(RSub(RInt(line.intensity_obs), pred), RInt(line.sigma_intensity_obs))))

LogProbValue(line, pred) ==
    RNeg(RSquare(RDiv(RSub(RInt(line.intensity_obs), pred), RInt(line.sigma_intensity_obs))))

\* _log_prob_line(line, temp_bins, dem_guess)
LogProbLine(line, b, dem_guess, st) ==
    CHOOSE result \in
        {IF p.err # "none" THEN p ELSE [p EXCEPT !.val = LogProbValue(line, p.val)]
            : p \in {IPredBare(line, b, dem_guess, st)}} : TRUE

\* _log_prob_lines(lines, temp_bins, dem_guess): the list of the per-line
\* values, line after line, then float(np.sum(probbs)).
RECURSIVE LogProbLinesFrom(_, _, _, _, _, _)
LogProbLinesFrom(ls, k, b, dem_guess, st, probbs) ==
    IF k > Len(ls)
    THEN [err |-> "none", val |-> RSum(probbs), cache |-> st.cache, tbs |-> st.tbs]
    ELSE CHOOSE result \in
             {IF r.err # "none"
                 THEN r
                 ELSE LogProbLinesFrom(ls, k + 1, b, dem_guess,
                                       [cache |-> r.cache, tbs |-> r.tbs], Append(probbs, r.val))
                 : r \in {LogProbLine(ls[k], b, dem_guess, st)}} : TRUE

LogProbLines(ls, b, dem_guess, st) == LogProbLinesFrom(ls, 1, b, dem_guess, st, <<>>)

\* np.any(dem_guess < 0)
FirstNegative(dem_guess) == Len(dem_guess) > 0 /\ RLess(dem_guess[1], RInt(0))

AnyNegative(dem_guess) == \E i \in 1..Len(dem_guess) : RLess(dem_guess[i], RInt(0))

\* A _log_prob without the constraint on the sign of the DEM values.
LogProbUnconstrained(dem_guess, b, ls, st) == LogProbLines(ls, b, dem_guess, st)

\* _log_prob(dem_guess, temp_bins, lines)
LogProb(dem_guess, b, ls, st) ==
    IF AnyNegative(dem_guess)
    THEN [err |-> "none", val |-> NegInf, cache |-> st.cache, tbs |-> st.tbs]
    ELSE LogProbLines(ls, b, dem_guess, st)

\* The state before a call, and the step that a call with result r makes.
Caches == [cache |-> cacheArr, tbs |-> tbs]

CallStep(op, arg, result) ==
    /\ \E r \in {result} :
          /\ cacheArr' = r.cache
          /\ tbs' = r.tbs
          /\ out' = IF r.err = "none" THEN Returned(op, arg, r.val) ELSE RaisedWith(op, arg, r.err, r.val)
    /\ UNCHANGED <<tbArgs, gens, cfs, cfArgs, cacheBinned, lines, drv, thr, dems, files>>

IPredBareCall(l, b, dem_values) ==
    CallStep("_I_pred", [l |-> l, b |-> b, dem |-> dem_values], IPredBare(lines[l], b, dem_values, Caches))

IPredCall(l, dem) ==
    CallStep("I_pred", [l |-> l, b |-> dem.temp_bins, dem |-> dem], IPred(lines[l], dem, Caches))

LogProbLineCall(l, b, dem_guess) ==
    CallStep("_log_prob_line", [l |-> l, b |-> b, dem |-> dem_guess], LogProbLine(lines[l], b, dem_guess, Caches))

LogProbLinesCall(b, dem_guess) ==
    CallStep("_log_prob_lines", [b |-> b, dem |-> dem_guess], LogProbLines(lines, b, dem_guess, Caches))

LogProbCall(b, dem_guess) ==
    CallStep("_log_prob", [b |-> b, dem |-> dem_guess], LogProb(dem_guess, b, lines, Caches))

(***************************************************************************)
(* predict_dem_emcee and _vary_values_independently (mcmc.py), with the    *)
(* part of emcee.EnsembleSampler.run_mcmc they rely on.  DEM values are    *)
(* exact fractions of 5e20 cm^-5, so that the initial guess 1e22 is 20.    *)
(* drv.pc is the position in predict_dem_emcee:                            *)
(*   "idle"          not called                                            *)
(*   "subrun_begin"  in the loop of _vary_values_independently, before     *)
(*                   run_mcmc for bin drv.i                                *)
(*   "subrun_steps"  run_mcmc for bin drv.i has evaluated its initial      *)
(*                   state and is taking steps                             *)
(*   "joint_begin"   _vary_values_independently has returned               *)
(*   "joint_steps"   the joint run_mcmc has accepted its initial state     *)
(*   "raised"        an exception has left predict_dem_emcee               *)
(* drv.joint is the joint run_mcmc call once it is made, with the steps    *)
(* it has taken; drv.result is the DEMOutput once one is returned.         *)
(* drv.nwalkers is the number of walkers the caller asked for, if any.     *)
(* drv.ran is the bin of the last run_mcmc of the warm-up that was         *)
(* started, drv.start_guess the dem_guess array when it was started and    *)
(* drv.calls the arrays that _log_prob has been called on during it.       *)
(* A move of the sampler proposes one of ProposalValues for a walker; the  *)
(* acceptance of a proposal with a finite log-probability is random.       *)
(***************************************************************************)
Walkers == 3
TailLen == 10
WarmupSteps == 1
InitialGuess == 20
JitterScale == Rat(1, 10)
\* Draws of np.random.rand for the three walkers of one bin.
JitterDraws == {<<RInt(0), Rat(1, 2), RInt(0)>>, <<Rat(1, 2), RInt(0), Rat(1, 2)>>}
ProposalValues == {RInt(-20), RInt(30)}

DrvIdle ==
    [pc |-> "idle", nsteps |-> 0, n_dem |-> 0, dem_guess |-> <<>>, parameter_guess |-> <<>>,
     i |-> 0, step |-> 0, pos |-> <<>>, chain |-> <<>>, joint |-> Nothing, result |-> Nothing,
     nwalkers |-> Nothing, ran |-> 0, start_guess |-> <<>>, calls |-> {}]

\* A _log_prob_single_variation that would assign the value to the whole
\* array.
LogProbSingleVariationAll(dem_val, idx_varied, dem_guess, b, ls, st) ==
    CHOOSE result \in
        {[err |-> r.err, val |-> r.val, cache |-> r.cache, tbs |-> r.tbs,
                     dem_guess |-> [j \in 1..Len(dem_guess) |-> dem_val]]
            : r \in {LogProb([j \in 1..Len(dem_guess) |-> dem_val], b, ls, st)}} : TRUE

\* _log_prob_single_variation(dem_val, idx_varied, dem_guess, temp_bins, lines):
\* the assignment is to the array of the caller.
LogProbSingleVariation(dem_val, idx_varied, dem_guess, b, ls, st) ==
    CHOOSE result \in
        {[err |-> r.err, val |-> r.val, cache |-> r.cache, tbs |-> r.tbs,
                     dem_guess |-> [dem_guess EXCEPT ![idx_varied] = dem_val]]
            : r \in {LogProb([dem_guess EXCEPT ![idx_varied] = dem_val], b, ls, st)}} : TRUE

\* EnsembleSampler.compute_log_prob: the log-probability function mapped over
\* the positions xs, one after the other; a NaN among the results is an error.
\* calls are the arrays that _log_prob has been called on.
RECURSIVE ComputeLogProbFrom(_, _, _, _, _, _, _, _, _)
ComputeLogProbFrom(xs, k, idx_varied, dem_guess, b, ls, st, vals, calls) ==
    IF k > Len(xs)
    THEN [err |-> "none", val |-> vals, cache |-> st.cache, tbs |-> st.tbs, dem_guess |-> dem_guess,
          calls |-> calls]
    ELSE CHOOSE result \in
             {IF r.err # "none"
                 THEN [err |-> r.err, val |-> r.val, cache |-> r.cache, tbs |-> r.tbs,
                       dem_guess |-> r.dem_guess, calls |-> calls \cup {r.dem_guess}]
                 ELSE ComputeLogProbFrom(xs, k + 1, idx_varied, r.dem_guess, b, ls,
                                         [cache |-> r.cache, tbs |-> r.tbs], Append(vals, r.val),
                                         calls \cup {r.dem_guess})
                 : r \in {LogProbSingleVariation(xs[k], idx_varied, dem_guess, b, ls, st)}} : TRUE

ComputeLogProb(xs, idx_varied, dem_guess, b, ls, st) ==
    CHOOSE result \in
        {IF r.err = "none" /\ (\E k \in 1..Len(r.val) : r.val[k] = NaN)
            THEN [r EXCEPT !.err = "ValueError",
                           !.val = [msg |-> "Probability function returned NaN",
                                    edges |-> Quantity(<<>>, "K")]]
            ELSE r
            : r \in {ComputeLogProbFrom(xs, 1, idx_varied, dem_guess, b, ls, st, <<>>, {})}} : TRUE

\* numpy arrays handed to run_mcmc: [nd |-> 1, data |-> vector] or
\* [nd |-> 2, data |-> sequence of rows]; np.atleast_2d gives the rows.
Vector(v) == [nd |-> 1, data |-> v]
Matrix(rows) == [nd |-> 2, data |-> rows]
Atleast2d(a) == IF a.nd = 1 THEN <<a.data>> ELSE a.data

\* emcee.ensemble.walkers_independent, as far as it can fail for one
\* dimension: every coordinate is finite and no column is constant.
WalkersIndependent(coords) ==
    /\ \A w \in 1..Len(coords) : \A j \in 1..Len(coords[w]) : IsFinite(coords[w][j])
    /\ \A j \in 1..Len(coords[1]) : \E w \in 1..Len(coords) : coords[w][j] # coords[1][j]

\* The checks of EnsembleSampler.sample on the initial state.
InitialStateError(initial_state, nwalkers, ndim) ==
    LET coords == Atleast2d(initial_state)
    IN  IF Len(coords) # nwalkers \/ \E w \in 1..Len(coords) : Len(coords[w]) # ndim
        THEN "incompatible input dimensions"
        ELSE IF ~WalkersIndependent(coords)
        THEN "Initial state has a large condition number"
        ELSE "none"

\* An exception leaves predict_dem_emcee.
DrvRaise(d, err, val) ==
    /\ drv' = [d EXCEPT !.pc = "raised"]
    /\ out' = RaisedWith("predict_dem_emcee", d.nsteps, err, val)

EmceeError(msg) == [msg |-> msg, edges |-> Quantity(<<>>, "K")]

NotDrv == <<tbArgs, gens, cfs, cfArgs, cacheBinned, lines, thr, dems, files>>

\* predict_dem_emcee(lines, temp_bins, nsteps=nsteps) up to the loop of
\* _vary_values_independently: the uniform guess, and its copies for the
\* walkers, each entry raised by rand * 0.1 * entry.
PredictDemEmcee(b, nsteps) ==
    /\ drv.pc = "idle"
    /\ LET n == LenOf(tbs[b])
           g == RInt(InitialGuess)
       IN  \E rand \in [1..n -> JitterDraws] :
              drv' = [DrvIdle EXCEPT
                         !.pc = IF n = 0 THEN "joint_begin" ELSE "subrun_begin",
                         !.nsteps = nsteps,
                         !.n_dem = n,
                         !.dem_guess = [j \in 1..n |-> g],
                         !.parameter_guess =
                             [w \in 1..Walkers |->
                                 [j \in 1..n |-> RAdd(g, RMul(RMul(rand[j][w], JitterScale), g))]],
                         !.i = 1]
    /\ UNCHANGED <<tbs, cacheArr, out, NotDrv>>

\* The keyword-only parameters of predict_dem_emcee.
KeywordParameters == {"nsteps", "progress"}

\* predict_dem_emcee(lines, temp_bins, nwalkers=nwalkers, nsteps=nsteps): a
\* keyword that is no parameter is a TypeError of the call, and the body
\* does not run.  drv.nwalkers is the number of walkers the caller asked for.
PredictDemEmceeWalkers(b, nwalkers, nsteps) ==
    /\ drv.pc = "idle"
    /\ {"nwalkers", "nsteps"} \ KeywordParameters # {}
    /\ drv' = [DrvIdle EXCEPT !.pc = "raised", !.nsteps = nsteps, !.nwalkers = Some(nwalkers)]
    /\ out' = RaisedWith("predict_dem_emcee", nsteps, "TypeError",
                         EmceeError("got an unexpected keyword argument"))
    /\ UNCHANGED <<tbs, cacheArr, NotDrv>>

\* A run_mcmc that would take the initial state without computing its
\* log-probability.
SubRunBeginUnevaluated(b) ==
    /\ drv.pc = "subrun_begin"
    /\ drv' = [drv EXCEPT !.pc = "subrun_steps", !.step = 0, !.chain = <<>>,
                          !.pos = [w \in 1..Walkers |-> drv.parameter_guess[w][drv.i]]]
    /\ UNCHANGED <<tbs, cacheArr, out, NotDrv>>

\* sampler.run_mcmc(parameter_guess[:, i : i + 1], nsteps=nsteps) up to its
\* first step: the checks on the initial state, then the log-probability of
\* every walker.
SubRunBegin(b) ==
    /\ drv.pc = "subrun_begin"
    /\ LET col == [w \in 1..Walkers |-> drv.parameter_guess[w][drv.i]]
           e == InitialStateError(Matrix([w \in 1..Walkers |-> <<col[w]>>]), Walkers, 1)
       IN  IF e # "none"
           THEN /\ DrvRaise(drv, "ValueError", EmceeError(e))
                /\ UNCHANGED <<tbs, cacheArr>>
           ELSE \E r \in {ComputeLogProb(col, drv.i, drv.dem_guess, b, lines, Caches)} :
                   /\ cacheArr' = r.cache
                   /\ tbs' = r.tbs
                   /\ IF r.err # "none"
                      THEN DrvRaise([drv EXCEPT !.dem_guess = r.dem_guess, !.ran = drv.i,
                                                !.start_guess = drv.dem_guess, !.calls = r.calls],
                                    r.err, r.val)
                      ELSE /\ drv' = [drv EXCEPT !.pc = "subrun_steps", !.dem_guess = r.dem_guess,
                                                 !.step = 0, !.pos = col, !.chain = <<>>,
                                                 !.ran = drv.i, !.start_guess = drv.dem_guess,
                                                 !.calls = r.calls]
                           /\ UNCHANGED out
    /\ UNCHANGED NotDrv

\* One step of run_mcmc for bin i: a proposal for every walker, the
\* log-probability of every proposal (that of walker last being computed
\* last), and the walkers of accepted, whose proposals are not at -inf, moved.
SubRunStep(b) ==
    /\ drv.pc = "subrun_steps"
    /\ drv.step < WarmupSteps
    /\ \E proposal \in [1..Walkers -> ProposalValues], last \in 1..Walkers :
          LET order == SelectSeq([w \in 1..Walkers |-> w], LAMBDA w : w # last) \o <<last>>
              xs == [k \in 1..Walkers |-> proposal[order[k]]]
          IN  \E r \in {ComputeLogProb(xs, drv.i, drv.dem_guess, b, lines, Caches)} :
                 /\ cacheArr' = r.cache
                 /\ tbs' = r.tbs
                 /\ IF r.err # "none"
                    THEN DrvRaise([drv EXCEPT !.dem_guess = r.dem_guess, !.calls = @ \cup r.calls],
                                  r.err, r.val)
                    ELSE \E accepted \in SUBSET {order[k] : k \in {n \in 1..Walkers : r.val[n] # NegInf}} :
                            LET pos == [w \in 1..Walkers |->
                                           IF w \in accepted THEN proposal[w] ELSE drv.pos[w]]
                            IN  /\ drv' = [drv EXCEPT !.dem_guess = r.dem_guess, !.step = @ + 1,
                                                       !.pos = pos, !.chain = Append(@, pos),
                                                       !.calls = @ \cup r.calls]
                                /\ UNCHANGED out
    /\ UNCHANGED NotDrv

\* np.mean(samples[-10:, :, :])
RECURSIVE Flatten(_)
Flatten(rows) == IF rows = <<>> THEN <<>> ELSE rows[1] \o Flatten(Tail(rows))
MeanOfTail(samples) ==
    LET first == IF Len(samples) > TailLen THEN Len(samples) - TailLen + 1 ELSE 1
        tail == Flatten(SubSeq(samples, first, Len(samples)))
    IN  RDiv(RSum(tail), RInt(Len(tail)))

\* A loop that would end after its first pass.
SubRunEndOnce ==
    /\ drv.pc = "subrun_steps"
    /\ drv.step = WarmupSteps
    /\ drv' = [drv EXCEPT
                  !.dem_guess[drv.i] = MeanOfTail(drv.chain),
                  !.parameter_guess = [w \in 1..Walkers |->
                                          [@[w] EXCEPT ![drv.i] = drv.chain[Len(drv.chain)][w]]],
                  !.i = @ + 1,
                  !.pc = "joint_begin"]
    /\ UNCHANGED <<tbs, cacheArr, out, NotDrv>>

\* The end of run_mcmc for bin i and the rest of the loop body.
SubRunEnd ==
    /\ drv.pc = "subrun_steps"
    /\ drv.step = WarmupSteps
    /\ drv' = [drv EXCEPT
                  !.dem_guess[drv.i] = MeanOfTail(drv.chain),
                  !.parameter_guess = [w \in 1..Walkers |->
                                          [@[w] EXCEPT ![drv.i] = drv.chain[Len(drv.chain)][w]]],
                  !.i = @ + 1,
                  !.pc = IF drv.i = drv.n_dem THEN "joint_begin" ELSE "subrun_begin"]
    /\ UNCHANGED <<tbs, cacheArr, out, NotDrv>>

\* nwalkers = 2 * n_dem + 1; the joint sampler; sampler.run_mcmc(dem_guess,
\* nsteps * n_dem) up to the checks on the initial state.
JointBegin ==
    /\ drv.pc = "joint_begin"
    /\ LET nwalkers == 2 * drv.n_dem + 1
           e == InitialStateError(Vector(drv.dem_guess), nwalkers, drv.n_dem)
           run == [nwalkers |-> nwalkers, ndim |-> drv.n_dem,
                   initial_state |-> Atleast2d(Vector(drv.dem_guess)),
                   nsteps |-> drv.nsteps * drv.n_dem, taken |-> 0]
       IN  IF e # "none"
           THEN DrvRaise([drv EXCEPT !.joint = Some(run)], "ValueError", EmceeError(e))
           ELSE /\ drv' = [drv EXCEPT !.pc = "joint_steps", !.joint = Some(run), !.step = 0]
                /\ UNCHANGED out
    /\ UNCHANGED <<tbs, cacheArr, NotDrv>>

(***************************************************************************)
(* SpecBins: one TempBins and one ContFuncDiscrete are built from          *)
(* arbitrary arguments, then read, iterated and assigned to in any order.  *)
(***************************************************************************)
EdgeValues == {1, 2, 4}
EdgeArgs == {Quantity(v, u) : v \in SeqsOver(EdgeValues, MaxEdges), u \in {"K", "cm"}}
SetterArgs == {Quantity(<<2, 3>>, "K")}

\* The contribution function of tests/test_emission.py, values in tenths.
FixtureTemps == Quantity(<<1, 2, 3, 4, 5>>, "MK")
FixtureValues == <<1, 3, 5, 7, 5>>

InitBins ==
    /\ tbs = <<>>
    /\ tbArgs = <<>>
    /\ gens = <<>>
    /\ cfs = <<NewContFunc(FixtureTemps, FixtureValues)>>
    /\ cfArgs = <<<<FixtureTemps, FixtureValues>>>>
    /\ cacheArr = {}
    /\ cacheBinned = {}
    /\ lines = <<>>
    /\ drv = DrvIdle
    /\ thr = ThrIdle
    /\ dems = <<>>
    /\ files = NoFiles
    /\ out = Returned("start", None, None)

DoTempBinsInit == tbs = <<>> /\ \E edges \in EdgeArgs : TempBinsInit(edges)
DoSetEdges == \E b \in 1..Len(tbs), val \in SetterArgs : SetEdges(b, val)
DoGetBinWidths == \E b \in 1..Len(tbs) : GetBinWidths(b)
DoGetBinCenters == \E b \in 1..Len(tbs) : GetBinCenters(b)
DoLenCall == \E b \in 1..Len(tbs) : LenCall(b)
DoIterBins == \E b \in 1..Len(tbs) : IterBins(b)
DoGenNext == \E g \in 1..Len(gens) : GenNext(g)
DoSetTemps == \E c \in 1..Len(cfs) : SetTemps(c, Quantity(<<2, 3>>, "MK"))
DoSetValues == \E c \in 1..Len(cfs) : SetValues(c, <<7, 5>>)

NextBins ==
    \/ DoTempBinsInit
    \/ DoSetEdges
    \/ DoGetBinWidths
    \/ DoGetBinCenters
    \/ DoLenCall
    \/ DoIterBins
    \/ DoGenNext
    \/ DoSetTemps
    \/ DoSetValues

SpecBins == InitBins /\ [][NextBins]_vars

(***************************************************************************)
(* Properties of TempBins and of the setters, checked under SpecBins.      *)
(***************************************************************************)
StrictlyIncreasing(s) == \A i \in 1..(Len(s) - 1) : s[i] < s[i + 1]

WellFormedEdges(v) == Len(v) >= 2 /\ StrictlyIncreasing(v)

\* The pair (edges[k], edges[k+1]) for the k-th bin, k = 1..N.
BinPair(q, k) == <<Quantity(<<q.v[k]>>, q.u), Quantity(<<q.v[k + 1]>>, q.u)>>

\* C6: for a TempBins built from strictly increasing edges of length >= 2,
\* len(bins) = len(edges) - 1, bin_widths[i] = edges[i+1] - edges[i],
\* bin_centers[i] = (edges[i] + edges[i+1]) / 2, and every generator that
\* iter_bins() returns yields the pairs (edges[i], edges[i+1]) from the
\* first one on, in increasing i, exactly len(bins) of them, and only then
\* ends.
C6_BinsDerived ==
    \A b \in 1..Len(tbs) :
        LET e == tbs[b].edges
            n == Len(e.v) - 1
        IN  WellFormedEdges(e.v) =>
              /\ (out.op = "len" /\ out.arg = b) => (out.err = "none" /\ out.val = n)
              /\ (out.op = "bin_widths" /\ out.arg = b) =>
                    /\ out.val.u = e.u
                    /\ Len(out.val.v) = n
                    /\ \A i \in 1..n : out.val.v[i] = e.v[i + 1] - e.v[i]
              /\ (out.op = "bin_centers" /\ out.arg = b) =>
                    /\ out.val.u = e.u
                    /\ Len(out.val.v) = n
                    /\ \A i \in 1..n : /\ out.val.v[i][2] > 0
                                       /\ 2 * out.val.v[i][1] = (e.v[i] + e.v[i + 1]) * out.val.v[i][2]
              /\ \A g \in 1..Len(gens) :
                    gens[g].b = b =>
                      /\ gens[g].state # "raised"
                      /\ Len(gens[g].yielded) <= n
                      /\ \A k \in 1..Len(gens[g].yielded) : gens[g].yielded[k] = BinPair(e, k)
                      /\ gens[g].state = "exhausted" => Len(gens[g].yielded) = n
                      /\ (out.op = "next" /\ out.arg = g /\ out.err = "none") =>
                            out.val = BinPair(e, Len(gens[g].yielded))

\* Witness of C6: on the bins [1, 2, 4] K a first generator has yielded both
\* pairs and ended, and a second one, started later, has yielded the first
\* pair again.
C6_Witness ==
    /\ Len(tbs) = 1
    /\ tbs[1].edges = Quantity(<<1, 2, 4>>, "K")
    /\ IsSome(tbs[1].bin_widths)
    /\ IsSome(tbs[1].bin_centers)
    /\ Len(gens) = 2
    /\ gens[1].state = "exhausted"
    /\ Len(gens[1].yielded) = 2
    /\ gens[2].state = "running"
    /\ out.op = "next" /\ out.arg = 2 /\ out.err = "none"
    /\ out.val = BinPair(tbs[1].edges, 1)

\* C7 (the claim as stated): constructing a TempBins from fewer than 2
\* edges, or from edges that are not strictly increasing, fails, and no bin
\* set with such edges exists.
C7_BadEdgesRejected ==
    /\ (out.op = "TempBins" /\ ~WellFormedEdges(out.arg.v)) => out.err \in {"ValueError", "UnitsError"}
    /\ \A b \in 1..Len(tbs) : WellFormedEdges(tbs[b].edges.v)

\* C8: constructing a TempBins from edges whose dimension is not
\* temperature fails with a units error, and no bin set is created.
C8_WrongUnitsRejected ==
    /\ (out.op = "TempBins" /\ ~IsTemperature(out.arg.u)) => (out.err = "UnitsError" /\ tbs = <<>>)
    /\ \A b \in 1..Len(tbs) : IsTemperature(tbs[b].edges.u)

\* Witness of C8: the constructor was called with edges in cm and raised.
C8_Witness ==
    /\ out.op = "TempBins"
    /\ out.arg = Quantity(<<1, 2>>, "cm")
    /\ out.err = "UnitsError"
    /\ tbs = <<>>

\* C9: an assignment to the edges of a TempBins, or to the temps or values
\* of a ContFuncDiscrete, raises RuntimeError and changes nothing: in every
\* reachable state the edges, temps and values are those given to the
\* constructor, and the memoized bin_widths and bin_centers are the ones
\* derived from the current edges.
C9_Immutable ==
    /\ out.op \in {"edges.setter", "temps.setter", "values.setter"} => out.err = "RuntimeError"
    /\ \A b \in 1..Len(tbs) :
          LET tb == tbs[b]
              n == Len(tb.edges.v) - 1
          IN  /\ tb.edges = tbArgs[b]
              /\ IsSome(tb.bin_widths) =>
                    /\ TheValue(tb.bin_widths).u = tb.edges.u
                    /\ TheValue(tb.bin_widths).v = [i \in 1..n |-> tb.edges.v[i + 1] - tb.edges.v[i]]
              /\ IsSome(tb.bin_centers) =>
                    /\ TheValue(tb.bin_centers).u = tb.edges.u
                    /\ TheValue(tb.bin_centers).v = [i \in 1..n |-> Rat(tb.edges.v[i] + tb.edges.v[i + 1], 2)]
    /\ \A c \in 1..Len(cfs) :
          /\ cfs[c].temps = cfArgs[c][1]
          /\ cfs[c].values = cfArgs[c][2]

\* Witness of C9: bin_widths and bin_centers are memoized and an assignment
\* to the edges has just raised.
C9_Witness ==
    /\ out.op = "edges.setter"
    /\ out.err = "RuntimeError"
    /\ Len(tbs) = 1
    /\ tbs[1].edges = Quantity(<<1, 2, 4>>, "K")
    /\ out.arg[2] # tbs[1].edges
    /\ IsSome(tbs[1].bin_widths)
    /\ IsSome(tbs[1].bin_centers)

(***************************************************************************)
(* SpecBinned: one ContFuncDiscrete and one TempBins are built from        *)
(* arbitrary arguments, and the contribution function is binned on the     *)
(* bins, through binned() and through _binned_arr(), any number of times.  *)
(***************************************************************************)
BinnedEdgeValues == {0, 1, 3, 4, 5}
BinnedEdgeArgs == {Quantity(v, u) : v \in SeqsOver(BinnedEdgeValues, MaxEdges), u \in {"K", "MK"}}

\* Samples in kelvin, not sorted, one temperature twice.
UnsortedTemps == Quantity(<<5, 1, 1>>, "K")
UnsortedValues == <<2, 4, 8>>

ContFuncArgs ==
    {<<FixtureTemps, FixtureValues>>, <<UnsortedTemps, UnsortedValues>>, <<UnsortedTemps, FixtureValues>>}

InitBinned ==
    /\ tbs = <<>>
    /\ tbArgs = <<>>
    /\ gens = <<>>
    /\ cfs = <<>>
    /\ cfArgs = <<>>
    /\ cacheArr = {}
    /\ cacheBinned = {}
    /\ lines = <<>>
    /\ drv = DrvIdle
    /\ thr = ThrIdle
    /\ dems = <<>>
    /\ files = NoFiles
    /\ out = Returned("start", None, None)

DoTempBinsInitB == tbs = <<>> /\ \E edges \in BinnedEdgeArgs : TempBinsInit(edges)
DoContFuncInitB == cfs = <<>> /\ \E a \in ContFuncArgs : ContFuncInit(a[1], a[2])
DoBinnedArr == \E c \in 1..Len(cfs), b \in 1..Len(tbs) : BinnedArr(c, b)
DoBinned == \E c \in 1..Len(cfs), b \in 1..Len(tbs) : Binned(c, b)

NextBinned ==
    \/ DoTempBinsInitB
    \/ DoContFuncInitB
    \/ DoBinnedArr
    \/ DoBinned

SpecBinned == InitBinned /\ [][NextBinned]_vars

(***************************************************************************)
(* Properties of the binning, checked under SpecBinned.                    *)
(***************************************************************************)
\* The last call was a binning of contribution function c on bins b.
IsBinningCall == out.op \in {"binned", "_binned_arr"}
BinningCf == cfs[out.arg[1]]
BinningTb == tbs[out.arg[2]]
BinningResult == IF out.op = "binned" THEN out.val.v ELSE out.val

\* The samples of bin i (1-based) by the interval rule of the claim:
\* edges[i] < t <= edges[i+1], and t = edges[1] as well for the lowest bin.
SamplesOfBin(cf, tb, i) ==
    LET t == ToValueK(cf.temps)
        e == ToValueK(tb.edges)
    IN  {k \in 1..Len(t) : (e[i] < t[k] /\ t[k] <= e[i + 1]) \/ (i = 1 /\ t[k] = e[1])}

RECURSIVE SumOfValues(_, _)
SumOfValues(cf, S) ==
    IF S = {} THEN 0
    ELSE LET k == CHOOSE x \in S : TRUE
         IN  cf.values[k] + SumOfValues(cf, S \ {k})

\* Every edge is exactly a sample temperature.
EdgesOnSamples(cf, tb) ==
    \A i \in 1..Len(tb.edges.v) :
        \E k \in 1..Len(cf.temps.v) : ToValueK(tb.edges)[i] = ToValueK(cf.temps)[k]

\* The edges farther than the tolerance from every sample temperature.
EdgesOffSamples(cf, tb) ==
    {i \in 1..Len(tb.edges.v) :
        \A k \in 1..Len(cf.temps.v) : Abs(ToValueK(tb.edges)[i] - ToValueK(cf.temps)[k]) > 1}

\* C4: whenever binned() (or _binned_arr()) returns, it returns one value
\* per bin, and the value of bin i is the arithmetic mean of the values of
\* exactly the samples with edges[i] < t <= edges[i+1], the lowest bin also
\* taking t = edges[0]; samples outside the edges are in no bin.  When all
\* edges lie on sample temperatures no bin is empty and every value is a
\* number.
C4_BinnedIsMeanPerBin ==
    (IsBinningCall /\ out.err = "none") =>
        LET cf == BinningCf
            tb == BinningTb
            n == Len(tb.edges.v) - 1
            res == BinningResult
        IN  /\ Len(res) = n
            /\ \A i \in 1..n :
                  LET S == SamplesOfBin(cf, tb, i)
                  IN  IF S = {}
                      THEN IsNaN(res[i])
                      ELSE /\ res[i][2] > 0
                           /\ res[i][1] * Cardinality(S) = SumOfValues(cf, S) * res[i][2]
            /\ EdgesOnSamples(cf, tb) => \A i \in 1..n : ~IsNaN(res[i])

\* Witness of C4: the samples 1..5 MK with values 0.1, 0.3, 0.5, 0.7, 0.5
\* binned on the edges 1, 3, 5 MK give 0.3 and 0.6 (values in tenths).
C4_Witness ==
    /\ out.op = "binned"
    /\ out.err = "none"
    /\ BinningCf = NewContFunc(FixtureTemps, FixtureValues)
    /\ BinningTb.edges = Quantity(<<1, 3, 5>>, "MK")
    /\ out.val = Quantity(<<RInt(3), RInt(6)>>, "cm5/K")

\* Second witness of C4: samples outside the edges are in no bin: on the
\* edges 3, 4 MK only the samples at 3 MK and 4 MK count.
C4_WitnessOutside ==
    /\ out.op = "_binned_arr"
    /\ out.err = "none"
    /\ BinningCf = NewContFunc(FixtureTemps, FixtureValues)
    /\ BinningTb.edges = Quantity(<<3, 4>>, "MK")
    /\ out.val = <<RInt(6)>>

\* C5 as stated: binning fails with MissingEdgeError, listing exactly the
\* edges farther than 1 K from every sample temperature, exactly when there
\* is such an edge.
C5_MissingEdgeErrorRaised ==
    IsBinningCall =>
        LET off == EdgesOffSamples(BinningCf, BinningTb)
        IN  /\ (off # {}) <=> (out.err = "MissingEdgeError")
            /\ (off # {}) => {out.val.edges.v[k] : k \in 1..Len(out.val.edges.v)}
                               = {BinningTb.edges.v[i] : i \in off}

\* C5 as amended: binning fails with the ValueError that names the missing
\* bin edges, and returns and caches nothing, exactly when some edge is
\* farther than 1 K from every sample temperature; the error lists those
\* edges, in the order of the edges, and no others.
C5_MissingEdgesValueError ==
    IsBinningCall =>
        LET tb == BinningTb
            off == EdgesOffSamples(BinningCf, tb)
            failed == out.err = "ValueError" /\ out.val.msg = "missing bin edges"
        IN  /\ (off # {}) <=> failed
            /\ failed =>
                  /\ out.val.edges.u = tb.edges.u
                  /\ Len(out.val.edges.v) = Cardinality(off)
                  /\ \E idx \in [1..Cardinality(off) -> off] :
                        /\ \A p, q \in 1..Cardinality(off) : p < q => idx[p] < idx[q]
                        /\ \A p \in 1..Cardinality(off) : out.val.edges.v[p] = tb.edges.v[idx[p]]
                  /\ ~CacheHit(cacheArr, out.arg)
                  /\ ~CacheHit(cacheBinned, out.arg)

\* Witness of C5: the fixture binned on the edges 0, 1, 3, 4 MK fails and
\* names the edge 0 MK, the only one that is no sample temperature.
C5_Witness ==
    /\ out.op = "binned"
    /\ out.err = "ValueError"
    /\ BinningCf = NewContFunc(FixtureTemps, FixtureValues)
    /\ BinningTb.edges = Quantity(<<0, 1, 3>>, "MK")
    /\ out.val.msg = "missing bin edges"
    /\ out.val.edges = Quantity(<<0>>, "MK")
(***************************************************************************)
(* SpecProb: two contribution functions, a list of emission lines over     *)
(* them and one TempBins exist; the predicted intensity and the            *)
(* log-probability are evaluated on them for arbitrary DEM values, any     *)
(* number of times.  Temperatures are in daK so that the bin widths in     *)
(* kelvin differ from the widths in the unit of the edges.                 *)
(***************************************************************************)
ProbTemps == Quantity(<<1, 2, 3, 4, 5>>, "daK")
SparseTemps == Quantity(<<1, 3, 5>>, "daK")
SparseValues == <<2, 0, 4>>

DenseLine == NewEmissionLine(1, 50, 2)
SparseLine == NewEmissionLine(2, 7, 3)
LineLists == {<<DenseLine>>, <<SparseLine, DenseLine>>, <<DenseLine, SparseLine, SparseLine>>}

\* Increasing edges on the sample grid; edges with no sample near the first;
\* a bin between two samples, with both edges within the tolerance;
\* decreasing edges.
ProbEdgeValues == {1, 2, 3, 5}
ProbEdgeArgs ==
    {Quantity(v, "daK") : v \in {w \in SeqsOver(ProbEdgeValues, MaxEdges) :
                                     Len(w) >= 2 /\ \A i \in 1..(Len(w) - 1) : w[i] < w[i + 1]}}
        \cup {Quantity(<<0, 1>>, "daK"), Quantity(<<11, 19>>, "K"), Quantity(<<3, 1>>, "daK")}

GuessValues == {-1, 0, 2}
Guesses(n) == {[i \in 1..n |-> RInt(w[i])] : w \in {x \in SeqsOver(GuessValues, n) : Len(x) = n}}
DemValues == {0, 2}
DemArgs(n) == {Quantity(w, un) : w \in {x \in SeqsOver(DemValues, n) : Len(x) = n}, un \in {"cm-5", "mm-5"}}

InitProb ==
    /\ \E edges \in ProbEdgeArgs : tbs = <<NewTempBins(edges)>> /\ tbArgs = <<edges>>
    /\ gens = <<>>
    /\ cfs = <<NewContFunc(ProbTemps, FixtureValues), NewContFunc(SparseTemps, SparseValues)>>
    /\ cfArgs = <<<<ProbTemps, FixtureValues>>, <<SparseTemps, SparseValues>>>>
    /\ cacheArr = {}
    /\ cacheBinned = {}
    /\ lines \in LineLists
    /\ drv = DrvIdle
    /\ thr = ThrIdle
    /\ dems = <<>>
    /\ files = NoFiles
    /\ out = Returned("start", None, None)

DoGetBinWidthsArr == GetBinWidthsArr(1)
DoIPredBare == \E l \in 1..Len(lines), g \in Guesses(LenOf(tbs[1])) : IPredBareCall(l, 1, g)
DoIPred == \E l \in 1..Len(lines), v \in DemArgs(LenOf(tbs[1])) : IPredCall(l, NewBinnedDEM(1, v))
DoLogProbLine == \E l \in 1..Len(lines), g \in Guesses(LenOf(tbs[1])) : LogProbLineCall(l, 1, g)
DoLogProbLines == \E g \in Guesses(LenOf(tbs[1])) : LogProbLinesCall(1, g)
DoLogProb == \E g \in Guesses(LenOf(tbs[1])) : LogProbCall(1, g)

NextProb ==
    \/ DoGetBinWidthsArr
    \/ DoIPredBare
    \/ DoIPred
    \/ DoLogProbLine
    \/ DoLogProbLines
    \/ DoLogProb

SpecProb == InitProb /\ [][NextProb]_vars

(***************************************************************************)
(* Properties of the forward model and of the log-probability, checked     *)
(* under SpecProb.  The expected values are computed from the samples, the *)
(* edges in kelvin and the DEM values, bin by bin.                         *)
(***************************************************************************)
ProbBins == tbs[1]

\* Mean of the samples of bin i; NaN for a bin with no sample.
BinMean(cf, tb, i) ==
    LET S == SamplesOfBin(cf, tb, i)
    IN  IF S = {} THEN NaN ELSE Rat(SumOfValues(cf, S), Cardinality(S))

WidthK(tb, i) == ToValueK(tb.edges)[i + 1] - ToValueK(tb.edges)[i]

\* Sum over the bins 1..n of mean * dem * width.
RECURSIVE WeightedSum(_, _, _, _)
WeightedSum(cf, tb, dem, n) ==
    IF n = 0 THEN RInt(0)
    ELSE RAdd(WeightedSum(cf, tb, dem, n - 1),
              RMul(RMul(BinMean(cf, tb, n), dem[n]), RInt(WidthK(tb, n))))

ExpectedIntensity(l, dem) ==
    WeightedSum(cfs[lines[l].cont_func], ProbBins, dem, Len(ProbBins.edges.v) - 1)

NoEmptyBin(l) ==
    \A i \in 1..(Len(ProbBins.edges.v) - 1) : SamplesOfBin(cfs[lines[l].cont_func], ProbBins, i) # {}

\* -((I_obs - p) / sigma)^2 for the expected intensity p = pn / pd.
ExpectedLogProb(l, dem) ==
    LET p == ExpectedIntensity(l, dem)
        d == lines[l].intensity_obs * p[2] - p[1]
        e == lines[l].sigma_intensity_obs * p[2]
    IN  IF IsNaN(p) THEN NaN ELSE Rat(-(d * d), e * e)

RECURSIVE ExpectedLogProbSum(_, _)
ExpectedLogProbSum(dem, n) ==
    IF n = 0 THEN RInt(0) ELSE RAdd(ExpectedLogProbSum(dem, n - 1), ExpectedLogProb(n, dem))

ZeroDemLogProb(l) ==
    Rat(-(lines[l].intensity_obs * lines[l].intensity_obs),
        lines[l].sigma_intensity_obs * lines[l].sigma_intensity_obs)

RECURSIVE ZeroDemLogProbSum(_)
ZeroDemLogProbSum(n) == IF n = 0 THEN RInt(0) ELSE RAdd(ZeroDemLogProbSum(n - 1), ZeroDemLogProb(n))

AllZero(dem) == \A i \in 1..Len(dem) : dem[i] = RInt(0)
SomeNegative(dem) == \E i \in 1..Len(dem) : dem[i][2] > 0 /\ dem[i][1] < 0

\* The values of a BinnedDEM in cm^-5.
InCm5(q) == [i \in 1..Len(q.v) |-> RInt(q.v[i] * (IF q.u = "mm-5" THEN 100000 ELSE 1))]

C1_WitnessNegInf ==
    /\ out.op = "_log_prob"
    /\ out.err = "none"
    /\ lines = <<SparseLine, DenseLine>>
    /\ ProbBins.edges = Quantity(<<1, 2, 3>>, "daK")
    /\ out.arg.dem = <<RInt(2), RInt(-1)>>
    /\ out.val = NegInf

C2_WitnessZero ==
    /\ out.op = "_log_prob_lines"
    /\ out.err = "none"
    /\ lines = <<SparseLine, DenseLine>>
    /\ ProbBins.edges = Quantity(<<1, 3, 5>>, "daK")
    /\ out.arg.dem = <<RInt(0), RInt(0)>>
    /\ out.val = Rat(-5674, 9)

\* C3: whenever _I_pred returns, its value is the sum over the bins of
\* binned contribution * DEM value * bin width, the widths in kelvin;
\* whenever I_pred returns for a BinnedDEM, its value is that sum for the
\* values of the DEM in cm^-5, which is the value _I_pred gives for them.
C3_IntensityIsWeightedSum ==
    /\ (out.op = "_I_pred" /\ out.err = "none") =>
          out.val = ExpectedIntensity(out.arg.l, out.arg.dem)
    /\ (out.op = "I_pred" /\ out.err = "none") =>
          /\ out.val = ExpectedIntensity(out.arg.l, InCm5(out.arg.dem.values))
          /\ out.val = IPredBare(lines[out.arg.l], out.arg.b, InCm5(out.arg.dem.values), Caches).val

\* I_pred has returned 3 * 200000 * 20 + 6 * 0 * 20 for a DEM given in mm^-5
\* on bins of 20 K.
C3_Witness ==
    /\ out.op = "I_pred"
    /\ out.err = "none"
    /\ lines[out.arg.l] = DenseLine
    /\ ProbBins.edges = Quantity(<<1, 3, 5>>, "daK")
    /\ out.arg.dem.values = Quantity(<<2, 0>>, "mm-5")
    /\ out.val = RInt(12000000)

(***************************************************************************)
(* SpecDriver: predict_dem_emcee is called once, on one contribution       *)
(* function sampled at every kelvin, a list of lines over it and one       *)
(* TempBins.                                                               *)
(***************************************************************************)
DriverTemps == Quantity(<<1, 2, 3, 4, 5>>, "K")
DriverValues == <<1, 1, 1, 2, 2>>
DriverLines == <<NewEmissionLine(1, 100, 1), NewEmissionLine(1, 7, 2)>>

\* Two bins, one bin, edges the last of which has no sample near it, and
\* decreasing edges.
DriverEdgeArgs ==
    {Quantity(<<1, 3, 5>>, "K"), Quantity(<<1, 5>>, "K"), Quantity(<<1, 3, 7>>, "K"),
     Quantity(<<3, 1>>, "K")}
NstepsArgs == {1, 2}
WalkersArgs == {5, 6}

InitDriver ==
    /\ \E edges \in DriverEdgeArgs : tbs = <<NewTempBins(edges)>> /\ tbArgs = <<edges>>
    /\ gens = <<>>
    /\ cfs = <<NewContFunc(DriverTemps, DriverValues)>>
    /\ cfArgs = <<<<DriverTemps, DriverValues>>>>
    /\ cacheArr = {}
    /\ cacheBinned = {}
    /\ lines = DriverLines
    /\ drv = DrvIdle
    /\ thr = ThrIdle
    /\ dems = <<>>
    /\ files = NoFiles
    /\ out = Returned("start", None, None)

DoPredictDemEmcee == \E nsteps \in NstepsArgs : PredictDemEmcee(1, nsteps)
DoPredictDemEmceeWalkers ==
    \E nwalkers \in WalkersArgs, nsteps \in NstepsArgs : PredictDemEmceeWalkers(1, nwalkers, nsteps)
DoSubRunBegin == SubRunBegin(1)
DoSubRunStep == SubRunStep(1)

NextDriver ==
    \/ DoPredictDemEmcee
    \/ DoPredictDemEmceeWalkers
    \/ DoSubRunBegin
    \/ DoSubRunStep
    \/ SubRunEnd
    \/ JointBegin

SpecDriver == InitDriver /\ [][NextDriver]_vars

(***************************************************************************)
(* Properties of predict_dem_emcee, checked under SpecDriver.              *)
(***************************************************************************)
\* C10: once the joint sampler has been handed its initial state, that state
\* is an array of 2N+1 rows of N entries each (N the number of bins), the
\* rows being jittered replicas of the combined guess of the warm-up, no two
\* of them identical.
C10_JointStartJittered ==
    IsSome(drv.joint) =>
        LET initial_state == TheValue(drv.joint).initial_state
        IN  /\ Len(initial_state) = 2 * drv.n_dem + 1
            /\ \A w \in 1..Len(initial_state) : Len(initial_state[w]) = drv.n_dem
            /\ \A w, v \in 1..Len(initial_state) : w # v => initial_state[w] # initial_state[v]

\* What the code does instead: the initial state handed to the joint sampler
\* of 2N+1 walkers is the combined guess itself, one row of N entries, and
\* run_mcmc rejects it.
JointStartIsBareGuess ==
    IsSome(drv.joint) =>
        /\ TheValue(drv.joint).initial_state = <<drv.dem_guess>>
        /\ TheValue(drv.joint).nwalkers = 2 * drv.n_dem + 1
        /\ drv.pc = "raised"
        /\ out.err = "ValueError"
        /\ out.val.msg = "incompatible input dimensions"

\* The joint sampler has been handed its initial state after a warm-up over
\* two bins.
JointStartReached == IsSome(drv.joint) /\ drv.n_dem = 2 /\ drv.nsteps = 2

\* A missing bin edge has ended predict_dem_emcee in the first warm-up run.
MissingEdgeReached ==
    /\ drv.pc = "raised"
    /\ drv.i = 1
    /\ out.err = "ValueError"
    /\ out.val.msg = "missing bin edges"

\* predict_dem_emcee has ended: an exception has left it or it has returned.
CallEnded == drv.pc \in {"raised", "returned"}

\* C11: a call of predict_dem_emcee that has gone through the warm-up and
\* made the joint run ends by returning a result: the joint sampler has
\* then taken exactly nsteps * N steps, and the samples of the result are
\* the positions of all its walkers at the last step, 2N+1 rows of N
\* entries, with the bin set of the call and the joint sampler.
C11_ReturnsLastJointStep ==
    (CallEnded /\ IsSome(drv.joint)) =>
        /\ drv.pc = "returned"
        /\ TheValue(drv.joint).taken = drv.nsteps * drv.n_dem
        /\ IsSome(drv.result)
        /\ Len(TheValue(drv.result).samples) = TheValue(drv.joint).nwalkers
        /\ \A w \in 1..Len(TheValue(drv.result).samples) :
              Len(TheValue(drv.result).samples[w]) = drv.n_dem
        /\ TheValue(drv.result).temp_bins = 1

\* What the code does instead: every call that makes the joint run ends in
\* the exception of run_mcmc, the joint sampler having taken no step, and
\* returns nothing.
JointRunNeverSteps ==
    IsSome(drv.joint) =>
        /\ drv.pc = "raised"
        /\ TheValue(drv.joint).taken = 0
        /\ drv.result = Nothing

(***************************************************************************)
(* Log-probability evaluations run concurrently, as a sampler with a       *)
(* thread pool runs them for the walkers of one step.  thr.tasks are the   *)
(* calls in progress, thr.shared is the dem_guess array that the calls of  *)
(* _log_prob_single_variation were all given (args=[i, dem_guess, ...]),   *)
(* thr.start its content before the calls.  A call of                      *)
(* _log_prob_single_variation is at                                        *)
(*   "write"  before dem_guess[idx_varied] = dem_val                       *)
(*   "check"  before np.any(dem_guess < 0) in _log_prob                    *)
(*   "lines"  before _log_prob_lines                                       *)
(*   "done"   returned (or raised)                                         *)
(* and a call of _log_prob, on an array of its own (vec), starts at        *)
(* "check".                                                                *)
(***************************************************************************)
EvalTask(fn, idx_varied, dem_val, vec) ==
    [fn |-> fn, idx |-> idx_varied, x |-> dem_val, vec |-> vec,
     pc |-> IF fn = "_log_prob_single_variation" THEN "write" ELSE "check",
     val |-> Nothing]

\* The array a call reads its DEM values from.
TaskGuess(t) == IF thr.tasks[t].fn = "_log_prob_single_variation" THEN thr.shared ELSE thr.tasks[t].vec

NotThr == <<tbArgs, gens, cfs, cfArgs, lines, drv, dems, files, out>>

\* dem_guess[idx_varied] = dem_val
EvalWrite(t) ==
    /\ thr.tasks[t].pc = "write"
    /\ thr' = [thr EXCEPT !.shared[thr.tasks[t].idx] = thr.tasks[t].x, !.tasks[t].pc = "check"]
    /\ UNCHANGED <<tbs, cacheArr, cacheBinned, NotThr>>

\* if np.any(dem_guess < 0): return float(-np.inf)
EvalCheck(t) ==
    /\ thr.tasks[t].pc = "check"
    /\ thr' = IF AnyNegative(TaskGuess(t))
              THEN [thr EXCEPT !.tasks[t].pc = "done",
                               !.tasks[t].val = Some([err |-> "none", val |-> NegInf])]
              ELSE [thr EXCEPT !.tasks[t].pc = "lines"]
    /\ UNCHANGED <<tbs, cacheArr, cacheBinned, NotThr>>

\* p = _log_prob_lines(lines, temp_bins, dem_guess); return p
EvalLines(t, b) ==
    /\ thr.tasks[t].pc = "lines"
    /\ \E r \in {LogProbLines(lines, b, TaskGuess(t), Caches)} :
          /\ cacheArr' = r.cache
          /\ tbs' = r.tbs
          /\ thr' = [thr EXCEPT !.tasks[t].pc = "done",
                                !.tasks[t].val = Some([err |-> r.err, val |-> r.val])]
    /\ UNCHANGED <<cacheBinned, NotThr>>

(***************************************************************************)
(* SpecEval: two log-probability evaluations on the two bins of one        *)
(* TempBins run concurrently, each a _log_prob_single_variation for the    *)
(* first bin on the shared guess or a _log_prob on a vector of its own.    *)
(***************************************************************************)
EvalBins == Quantity(<<1, 3, 5>>, "K")
EvalGuess == <<RInt(20), RInt(20)>>
EvalTaskArgs ==
    {EvalTask("_log_prob_single_variation", 1, x, <<>>) : x \in {RInt(-20), RInt(21), RInt(30)}}
        \cup {EvalTask("_log_prob", 0, RInt(0), g) : g \in {<<RInt(21), RInt(20)>>, <<RInt(20), RInt(-20)>>}}

InitEval ==
    /\ tbs = <<NewTempBins(EvalBins)>>
    /\ tbArgs = <<EvalBins>>
    /\ gens = <<>>
    /\ cfs = <<NewContFunc(DriverTemps, DriverValues)>>
    /\ cfArgs = <<<<DriverTemps, DriverValues>>>>
    /\ cacheArr = {}
    /\ cacheBinned = {}
    /\ lines = DriverLines
    /\ drv = DrvIdle
    /\ \E t1 \in EvalTaskArgs, t2 \in EvalTaskArgs :
          thr = [shared |-> EvalGuess, start |-> EvalGuess, tasks |-> <<t1, t2>>]
    /\ dems = <<>>
    /\ files = NoFiles
    /\ out = Returned("start", None, None)

DoEvalWrite == \E t \in 1..Len(thr.tasks) : EvalWrite(t)
DoEvalCheck == \E t \in 1..Len(thr.tasks) : EvalCheck(t)
DoEvalLines == \E t \in 1..Len(thr.tasks) : EvalLines(t, 1)

NextEval ==
    \/ DoEvalWrite
    \/ DoEvalCheck
    \/ DoEvalLines

SpecEval == InitEval /\ [][NextEval]_vars

\* The arguments of evaluation t as a DEM vector, and the value a lone call
\* with them returns.
OwnGuess(t) ==
    IF thr.tasks[t].fn = "_log_prob_single_variation"
    THEN [thr.start EXCEPT ![thr.tasks[t].idx] = thr.tasks[t].x]
    ELSE thr.tasks[t].vec

LoneValue(t) == LogProb(OwnGuess(t), 1, lines, Caches).val

\* C12: the log-probability functions handed to the sampler are pure, so
\* every evaluation, in whatever interleaving with the evaluations for the
\* other walkers, returns the value a lone call with its arguments returns.
C12_EvaluationsArePure ==
    \A t \in 1..Len(thr.tasks) :
        thr.tasks[t].pc = "done" => TheValue(thr.tasks[t].val).val = LoneValue(t)

\* No evaluation writes to the guess vector the evaluations were given.
SharedGuessUnwritten == thr.shared = thr.start

\* What holds: _log_prob itself, on an array of its own, returns the value of
\* its arguments in every interleaving.
JointEvaluationsPure ==
    \A t \in 1..Len(thr.tasks) :
        (thr.tasks[t].pc = "done" /\ thr.tasks[t].fn = "_log_prob") =>
            TheValue(thr.tasks[t].val).val = LoneValue(t)

(***************************************************************************)
(* Failures of predict_dem_emcee, checked under SpecDriver.                *)
(***************************************************************************)
\* The bins of the call have an edge with no sample temperature of the
\* contribution function of the lines within 1 K, or edges that decrease.
LacksEdge == EdgesOffSamples(cfs[1], tbs[1]) # {}
DecreasingEdges == \E k \in 1..(Len(tbs[1].edges.v) - 1) : tbs[1].edges.v[k + 1] < tbs[1].edges.v[k]
Malformed == LacksEdge \/ DecreasingEdges

\* No sampler has taken a step: the first warm-up run has no position and no
\* chain yet, and no joint run has been made.
NoSamplingBegun ==
    /\ drv.i <= 1
    /\ drv.step = 0
    /\ drv.pos = <<>>
    /\ drv.chain = <<>>
    /\ drv.joint = Nothing

\* C13: a call of predict_dem_emcee on malformed input, bins with an edge
\* that the contribution function of a line has no sample temperature for
\* (or with decreasing edges), does not get as far as a sampler step: once
\* the first run has been started the call has ended in the exception of the
\* binning (or, before that, in the TypeError of a keyword that is no
\* parameter), with no step of any sampler taken and no result, and nothing
\* happens afterwards (no handler, no retry).
C13_MalformedInputRaisesBeforeSampling ==
    (Malformed /\ drv.pc \notin {"idle", "subrun_begin"}) =>
        /\ drv.pc = "raised"
        /\ out.op = "predict_dem_emcee"
        /\ out.err = IF IsSome(drv.nwalkers) THEN "TypeError" ELSE "ValueError"
        /\ (LacksEdge /\ drv.nwalkers = Nothing) => out.val.msg = "missing bin edges"
        /\ NoSamplingBegun
        /\ drv.result = Nothing
        /\ ~ENABLED NextDriver

\* Witness of C13: the call on the edges 1, 3, 7 K, with samples at 1..5 K,
\* has ended in the error that names the edge 7 K.
C13_Witness ==
    /\ drv.pc = "raised"
    /\ tbs[1].edges = Quantity(<<1, 3, 7>>, "K")
    /\ out.op = "predict_dem_emcee"
    /\ out.err = "ValueError"
    /\ out.val.msg = "missing bin edges"
    /\ out.val.edges = Quantity(<<7>>, "K")
    /\ NoSamplingBegun

(***************************************************************************)
(* Calls of binned() in progress, possibly several at once (thr.tasks).    *)
(* binned and _binned_arr are both wrapped by functools.lru_cache: the     *)
(* wrapper looks the key up, calls the function on a miss, and stores the  *)
(* result; each of the three is atomic, the function itself is not.  A     *)
(* call of binned is at                                                    *)
(*   "lookup"      before the lookup in the cache of binned                *)
(*   "arr_lookup"  before the lookup in the cache of _binned_arr           *)
(*   "compute"     before the body of _binned_arr                          *)
(*   "arr_store"   before the store in the cache of _binned_arr            *)
(*   "store"       before the store in the cache of binned                 *)
(*   "done"        returned (or raised)                                    *)
(* seen is what the cache of binned held at the lookup, computed whether   *)
(* the body of _binned_arr has run for this call.                          *)
(***************************************************************************)
MaxCalls == 3

\* A key made of the edges of the bins: the object of least index with the
\* edges of b.
CallKeyByEdges(c, b) == <<c, CHOOSE k \in 1..Len(tbs) : tbs[k].edges = tbs[b].edges
                                 /\ \A j \in 1..(k - 1) : tbs[j].edges # tbs[b].edges>>

\* The key lru_cache makes of (self, temp_bins): both hash by identity.
CallKey(c, b) == <<c, b>>

BinnedTask(c, b) ==
    [fn |-> "binned", c |-> c, b |-> b, pc |-> "lookup", seen |-> {}, computed |-> FALSE,
     arr |-> <<>>, val |-> Nothing]

NotTasks == <<tbs, tbArgs, gens, cfs, cfArgs, lines, drv, dems, files, out>>

\* cont_func.binned(temp_bins) is called.
BinnedStart(c, b) ==
    /\ Len(thr.tasks) < MaxCalls
    /\ thr' = [thr EXCEPT !.tasks = Append(@, BinnedTask(c, b))]
    /\ UNCHANGED <<cacheArr, cacheBinned, NotTasks>>

BinnedLookup(t) ==
    /\ thr.tasks[t].pc = "lookup"
    /\ LET key == CallKey(thr.tasks[t].c, thr.tasks[t].b)
           seen == {e.key : e \in cacheBinned}
       IN  thr' = IF CacheHit(cacheBinned, key)
                  THEN [thr EXCEPT !.tasks[t].pc = "done", !.tasks[t].seen = seen,
                                   !.tasks[t].val = Some([err |-> "none", val |-> CacheGet(cacheBinned, key)])]
                  ELSE [thr EXCEPT !.tasks[t].pc = "arr_lookup", !.tasks[t].seen = seen]
    /\ UNCHANGED <<cacheArr, cacheBinned, NotTasks>>

\* A lookup that, on a miss, would take the entry of other bins of the same
\* contribution function.
BinnedArrLookupAnyBins(t) ==
    /\ thr.tasks[t].pc = "arr_lookup"
    /\ LET key == CallKey(thr.tasks[t].c, thr.tasks[t].b)
           others == {e \in cacheArr : e.key[1] = thr.tasks[t].c}
       IN  thr' = IF CacheHit(cacheArr, key)
                  THEN [thr EXCEPT !.tasks[t].pc = "store", !.tasks[t].arr = CacheGet(cacheArr, key)]
                  ELSE IF others # {}
                  THEN [thr EXCEPT !.tasks[t].pc = "store",
                                   !.tasks[t].arr = (CHOOSE e \in others : TRUE).val]
                  ELSE [thr EXCEPT !.tasks[t].pc = "compute"]
    /\ UNCHANGED <<cacheArr, cacheBinned, NotTasks>>

BinnedArrLookup(t) ==
    /\ thr.tasks[t].pc = "arr_lookup"
    /\ LET key == CallKey(thr.tasks[t].c, thr.tasks[t].b)
       IN  thr' = IF CacheHit(cacheArr, key)
                  THEN [thr EXCEPT !.tasks[t].pc = "store", !.tasks[t].arr = CacheGet(cacheArr, key)]
                  ELSE [thr EXCEPT !.tasks[t].pc = "compute"]
    /\ UNCHANGED <<cacheArr, cacheBinned, NotTasks>>

BinnedArrBody(t) ==
    /\ thr.tasks[t].pc = "compute"
    /\ \E r \in {BinnedArrCompute(cfs[thr.tasks[t].c], tbs[thr.tasks[t].b])} :
          thr' = IF r.err = "none"
                 THEN [thr EXCEPT !.tasks[t].pc = "arr_store", !.tasks[t].computed = TRUE,
                                  !.tasks[t].arr = r.val]
                 ELSE [thr EXCEPT !.tasks[t].pc = "done", !.tasks[t].computed = TRUE,
                                  !.tasks[t].val = Some(r)]
    /\ UNCHANGED <<cacheArr, cacheBinned, NotTasks>>

\* cache[key] = result: an entry of the key is replaced.
CacheStore(cache, key, val) == {e \in cache : e.key # key} \cup {[key |-> key, val |-> val]}

BinnedArrStore(t) ==
    /\ thr.tasks[t].pc = "arr_store"
    /\ cacheArr' = CacheStore(cacheArr, CallKey(thr.tasks[t].c, thr.tasks[t].b), thr.tasks[t].arr)
    /\ thr' = [thr EXCEPT !.tasks[t].pc = "store"]
    /\ UNCHANGED <<cacheBinned, NotTasks>>

\* return self._binned_arr(temp_bins) * u.cm**5 / u.K, stored by the wrapper.
BinnedStore(t) ==
    /\ thr.tasks[t].pc = "store"
    /\ LET val == Quantity(thr.tasks[t].arr, "cm5/K")
       IN  /\ cacheBinned' = CacheStore(cacheBinned, CallKey(thr.tasks[t].c, thr.tasks[t].b), val)
           /\ thr' = [thr EXCEPT !.tasks[t].pc = "done",
                                 !.tasks[t].val = Some([err |-> "none", val |-> val])]
    /\ UNCHANGED <<cacheArr, NotTasks>>

(***************************************************************************)
(* SpecCache: one contribution function (the fixture of                    *)
(* tests/test_emission.py) is binned, by calls that may overlap, on three  *)
(* TempBins objects: two with the same edges and one with an edge that is  *)
(* no sample temperature.                                                  *)
(***************************************************************************)
CacheEdgeArgs == <<Quantity(<<1, 3, 5>>, "MK"), Quantity(<<1, 3, 5>>, "MK"), Quantity(<<0, 1>>, "MK")>>

InitCache ==
    /\ tbs = [k \in 1..Len(CacheEdgeArgs) |-> NewTempBins(CacheEdgeArgs[k])]
    /\ tbArgs = CacheEdgeArgs
    /\ gens = <<>>
    /\ cfs = <<NewContFunc(FixtureTemps, FixtureValues)>>
    /\ cfArgs = <<<<FixtureTemps, FixtureValues>>>>
    /\ cacheArr = {}
    /\ cacheBinned = {}
    /\ lines = <<>>
    /\ drv = DrvIdle
    /\ thr = ThrIdle
    /\ dems = <<>>
    /\ files = NoFiles
    /\ out = Returned("start", None, None)

\* The calls are listed by their bins; a call takes its steps whenever it
\* likes, so that no order of the lookups, bodies and stores is lost.
DoBinnedStart ==
    \E b \in 1..Len(tbs) :
        /\ \A t \in 1..Len(thr.tasks) : thr.tasks[t].b <= b
        /\ BinnedStart(1, b)
DoBinnedLookup == \E t \in 1..Len(thr.tasks) : BinnedLookup(t)
DoBinnedArrLookup == \E t \in 1..Len(thr.tasks) : BinnedArrLookup(t)
DoBinnedArrBody == \E t \in 1..Len(thr.tasks) : BinnedArrBody(t)
DoBinnedArrStore == \E t \in 1..Len(thr.tasks) : BinnedArrStore(t)
DoBinnedStore == \E t \in 1..Len(thr.tasks) : BinnedStore(t)

NextCache ==
    \/ DoBinnedStart
    \/ DoBinnedLookup
    \/ DoBinnedArrLookup
    \/ DoBinnedArrBody
    \/ DoBinnedArrStore
    \/ DoBinnedStore

SpecCache == InitCache /\ [][NextCache]_vars

(***************************************************************************)
(* Properties of the caches of the binning, checked under SpecCache.       *)
(***************************************************************************)
\* Call t of binned has returned (not raised), and what it returned.
HasReturned(t) == thr.tasks[t].pc = "done" /\ TheValue(thr.tasks[t].val).err = "none"
ReturnedValue(t) == TheValue(thr.tasks[t].val).val

\* The objects a call was made on, as a pair of identities.
ObjectsOf(t) == <<thr.tasks[t].c, thr.tasks[t].b>>

\* C14: the cache of binned is keyed by the identity of the bins.  A call
\* that finds an entry for its own TempBins object returns the values of
\* the earlier calls on that object without running the computation; a
\* call on an object with no entry yet is computed for that object, even
\* when an object with equal edges has an entry, and leaves an entry of its
\* own; the entries of two objects with equal edges hold equal values.
C14_CacheKeyedByIdentity ==
    /\ \A t \in 1..Len(thr.tasks) :
          (thr.tasks[t].pc = "done" /\ ObjectsOf(t) \in thr.tasks[t].seen) =>
              /\ HasReturned(t)
              /\ ~thr.tasks[t].computed
              /\ \A s \in 1..Len(thr.tasks) :
                    (HasReturned(s) /\ ObjectsOf(s) = ObjectsOf(t)) => ReturnedValue(s) = ReturnedValue(t)
    /\ \A t \in 1..Len(thr.tasks) :
          (HasReturned(t) /\ ObjectsOf(t) \notin thr.tasks[t].seen) =>
              \E s \in 1..Len(thr.tasks) :
                  /\ ObjectsOf(s) = ObjectsOf(t)
                  /\ thr.tasks[s].computed
                  /\ Quantity(thr.tasks[s].arr, "cm5/K") = ReturnedValue(t)
    /\ \A t \in 1..Len(thr.tasks) :
          HasReturned(t) => [key |-> ObjectsOf(t), val |-> ReturnedValue(t)] \in cacheBinned
    /\ \A e, f \in cacheBinned :
          (e.key[1] = f.key[1] /\ tbs[e.key[2]].edges = tbs[f.key[2]].edges) => e.val = f.val

\* Witness of C14: binned has returned three times, for the first TempBins
\* computed, for the same object again from the cache, and for the second
\* object, of equal edges, computed again; the cache has an entry for each
\* of the two objects.
C14_Witness ==
    /\ Len(thr.tasks) = 3
    /\ \A t \in 1..3 : HasReturned(t)
    /\ ObjectsOf(1) = <<1, 1>> /\ thr.tasks[1].computed /\ thr.tasks[1].seen = {}
    /\ ObjectsOf(2) = <<1, 1>> /\ ~thr.tasks[2].computed /\ thr.tasks[2].seen = {<<1, 1>>}
    /\ ObjectsOf(3) = <<1, 2>> /\ thr.tasks[3].computed /\ thr.tasks[3].seen = {<<1, 1>>}
    /\ ReturnedValue(1) = ReturnedValue(3)
    /\ {e.key : e \in cacheBinned} = {<<1, 1>>, <<1, 2>>}

(***************************************************************************)
(* DEMOutput (dem.py): the result of a run, [sampler, temp_bins, samples], *)
(* saved to and loaded from a netCDF file.  A file is [data, coords,       *)
(* attrs]: bare numbers, the units are not stored; written_by, the         *)
(* DEMOutput whose save wrote the file, is history and not in the file.    *)
(***************************************************************************)
MaxOutputs == 2

\* _from_sampler: the positions of all walkers at the last step of the
\* chain, read as u_dem.
FromSampler(sampler, b) ==
    [sampler |-> Some(sampler), temp_bins |-> b,
     samples |-> Quantity(sampler.chain[Len(sampler.chain)], "cm-5")]

\* temp_edges.to_value(u_temp)
SavedEdgesOwnUnit(tb) == tb.edges.v

SavedEdges(tb) == ToValueK(tb.edges)

\* temp_centers.to_value(u_temp)
SavedCenters(centers) == [i \in 1..Len(centers.v) |-> RMul(centers.v[i], RInt(Scale(centers.u)))]

\* save(path): xr.DataArray(data=self.samples, ...) keeps the numbers of the
\* samples and drops their unit; bin_centers is a cached property of the
\* TempBins.
Save(d, path) ==
    /\ d \in 1..Len(dems)
    /\ LET b == dems[d].temp_bins
           centers == IF IsSome(tbs[b].bin_centers) THEN TheValue(tbs[b].bin_centers)
                      ELSE BinCentersOf(tbs[b])
           da == [data |-> dems[d].samples.v,
                  coords |-> [Sampler |-> [k \in 1..Len(dems[d].samples.v) |-> k - 1],
                              TempBinCenter |-> SavedCenters(centers)],
                  attrs |-> SavedEdges(tbs[b]),
                  written_by |-> d]
       IN  /\ tbs' = [tbs EXCEPT ![b].bin_centers = Some(centers)]
           /\ files' = [p \in DOMAIN files \cup {path} |-> IF p = path THEN da ELSE files[p]]
    /\ out' = Returned("save", <<d, path>>, None)
    /\ UNCHANGED <<tbArgs, gens, cfs, cfArgs, cacheArr, cacheBinned, lines, drv, thr, dems>>

\* load(path): a new TempBins of the stored edges read as kelvin, the stored
\* data read as u_dem, no sampler.
Load(path) ==
    /\ Len(dems) < MaxOutputs
    /\ IF path \notin DOMAIN files
       THEN /\ out' = Raised("load", path, "FileNotFoundError")
            /\ UNCHANGED <<tbs, tbArgs, dems>>
       ELSE LET edges == Quantity(files[path].attrs, "K")
            IN  /\ tbs' = Append(tbs, NewTempBins(edges))
                /\ tbArgs' = Append(tbArgs, edges)
                /\ dems' = Append(dems, [sampler |-> Nothing, temp_bins |-> Len(tbs) + 1,
                                         samples |-> Quantity(files[path].data, "cm-5")])
                /\ out' = Returned("load", path, Len(dems) + 1)
    /\ UNCHANGED <<gens, cfs, cfArgs, cacheArr, cacheBinned, lines, drv, thr, files>>

(***************************************************************************)
(* SpecSave: a DEMOutput made from a joint sampler of 2N+1 walkers over N  *)
(* bins is saved to and loaded from two paths, in any order.               *)
(***************************************************************************)
SaveEdgeArgs ==
    {Quantity(<<1, 3, 5>>, "K"), Quantity(<<1, 3, 5>>, "MK"), Quantity(<<2, 3>>, "daK"),
     Quantity(<<2, 4>>, "K")}

\* The positions of 2n+1 walkers in n dimensions at one step.
Positions(n, seed) == [w \in 1..(2 * n + 1) |-> [j \in 1..n |-> Rat(seed + 3 * w + j, 2)]]

SamplerArgs(n) ==
    {[chain |-> <<Positions(n, s)>>] : s \in {0, 5}}
        \cup {[chain |-> <<Positions(n, s), Positions(n, t)>>] : s \in {0, 5}, t \in {1, 5}}

Paths == {"result.nc", "other.nc"}

InitSave ==
    /\ \E edges \in SaveEdgeArgs :
          /\ tbs = <<NewTempBins(edges)>>
          /\ tbArgs = <<edges>>
          /\ \E sampler \in SamplerArgs(Len(edges.v) - 1) : dems = <<FromSampler(sampler, 1)>>
    /\ gens = <<>>
    /\ cfs = <<>>
    /\ cfArgs = <<>>
    /\ cacheArr = {}
    /\ cacheBinned = {}
    /\ lines = <<>>
    /\ drv = DrvIdle
    /\ thr = ThrIdle
    /\ files = NoFiles
    /\ out = Returned("start", None, None)

DoSave == \E d \in 1..Len(dems), path \in Paths : Save(d, path)
DoLoad == \E path \in Paths : Load(path)

NextSave ==
    \/ DoSave
    \/ DoLoad

SpecSave == InitSave /\ [][NextSave]_vars

\* The last call was a load that returned; the DEMOutput it returned and the
\* DEMOutput that was saved to the file it read.
HasLoaded == out.op = "load" /\ out.err = "none"
LoadedOutput == dems[out.val]
SavedOutput == dems[files[out.arg].written_by]

DemUnits == {"cm-5", "mm-5"}

\* BinnedDEM(temp_bins, values): the two assignments, then
\* values.to_value(u_dem), which refuses a unit that is no DEM unit; the
\* object is the value of the call.
BinnedDEMInit(b, values) ==
    /\ b \in 1..Len(tbs)
    /\ out' = IF values.u \in DemUnits
              THEN Returned("BinnedDEM", <<b, values>>, NewBinnedDEM(b, values))
              ELSE Raised("BinnedDEM", <<b, values>>, "UnitConversionError")
    /\ UNCHANGED AllButOut

DemEdgeArgs ==
    {Quantity(<<1, 3, 5>>, "K"), Quantity(<<1, 3>>, "MK"), Quantity(<<2, 3, 5, 8>>, "daK")}
DemValueArgs == {Quantity(v, un) : v \in SeqsOver({0, 2}, MaxEdges), un \in DemUnits \cup {"K"}}

InitDem ==
    /\ \E edges \in DemEdgeArgs : tbs = <<NewTempBins(edges)>> /\ tbArgs = <<edges>>
    /\ gens = <<>>
    /\ cfs = <<>>
    /\ cfArgs = <<>>
    /\ cacheArr = {}
    /\ cacheBinned = {}
    /\ lines = <<>>
    /\ drv = DrvIdle
    /\ thr = ThrIdle
    /\ dems = <<>>
    /\ files = NoFiles
    /\ out = Returned("start", None, None)

DoBinnedDEMInit == \E values \in DemValueArgs : BinnedDEMInit(1, values)
DoLen == LenCall(1)

NextDem ==
    \/ DoBinnedDEMInit
    \/ DoLen

SpecDem == InitDem /\ [][NextDem]_vars

\* C16: the construction of a BinnedDEM whose values are not as many as the
\* bins of its temp_bins fails, and a BinnedDEM that has been built has as
\* many values as its temp_bins has bins.
C16_LengthMismatchRejected ==
    out.op = "BinnedDEM" =>
        /\ Len(out.arg[2].v) # LenOf(tbs[out.arg[1]]) => out.err # "none"
        /\ out.err = "none" => Len(out.val.values.v) = LenOf(tbs[out.val.temp_bins])

\* What the code does instead: values in a DEM unit are accepted whatever
\* their number, and stored as they are.
AnyLengthAccepted ==
    (out.op = "BinnedDEM" /\ out.arg[2].u \in DemUnits) =>
        /\ out.err = "none"
        /\ out.val.values = out.arg[2]
        /\ Len(out.val.values_arr) = Len(out.arg[2].v)

\* A BinnedDEM of one value has been built on two bins.
MismatchBuilt ==
    /\ out.op = "BinnedDEM"
    /\ out.err = "none"
    /\ LenOf(tbs[out.val.temp_bins]) = 2
    /\ Len(out.val.values.v) = 1

(***************************************************************************)
(* The number of walkers and of steps, checked under SpecDriver.           *)
(***************************************************************************)
\* C17: a call of predict_dem_emcee that names a number of walkers is
\* accepted, and its joint run has that many walkers; a call that names
\* none has a joint run of 2N+1 walkers.
C17_CallerWalkersUsed ==
    /\ IsSome(drv.nwalkers) => ~(drv.pc = "raised" /\ out.err = "TypeError")
    /\ (IsSome(drv.nwalkers) /\ IsSome(drv.joint)) =>
          TheValue(drv.joint).nwalkers = TheValue(drv.nwalkers)
    /\ (drv.nwalkers = Nothing /\ IsSome(drv.joint)) =>
          TheValue(drv.joint).nwalkers = 2 * drv.n_dem + 1

\* What the code does instead: the call that names a number of walkers ends
\* in a TypeError before the body runs; the joint sampler always has 2N+1
\* walkers.
WalkersArgumentRefused ==
    /\ IsSome(drv.nwalkers) =>
          /\ drv.pc = "raised"
          /\ out.err = "TypeError"
          /\ drv.joint = Nothing
          /\ drv.dem_guess = <<>>
    /\ IsSome(drv.joint) => TheValue(drv.joint).nwalkers = 2 * drv.n_dem + 1

\* The tutorial's call, with a number of walkers, has been made.
WalkersCallMade == IsSome(drv.nwalkers) /\ drv.nsteps = 2

\* A warm-up run has been completed: its chain has not been replaced yet.
SubRunCompleted ==
    \/ drv.pc = "subrun_begin" /\ drv.i > 1
    \/ drv.pc = "joint_begin"
    \/ IsSome(drv.joint)

\* C18: every warm-up run takes as many steps as the nsteps of the call,
\* and the joint run is asked for nsteps * N steps.
C18_NstepsIsWarmupLength ==
    /\ SubRunCompleted => Len(drv.chain) = drv.nsteps
    /\ IsSome(drv.joint) => TheValue(drv.joint).nsteps = drv.nsteps * drv.n_dem

\* What the code does instead: every warm-up run takes the fixed number of
\* steps, whatever the nsteps of the call; only the number of steps asked of
\* the joint run depends on it.
WarmupLengthFixed ==
    /\ SubRunCompleted => Len(drv.chain) = WarmupSteps
    /\ IsSome(drv.joint) => TheValue(drv.joint).nsteps = drv.nsteps * drv.n_dem

\* Two calls that differ in nsteps only have completed a warm-up run.
WarmupOfLongerCallCompleted == SubRunCompleted /\ drv.nsteps = 2
WarmupOfShorterCallCompleted == SubRunCompleted /\ drv.nsteps = 1

(***************************************************************************)
(* Overlapping calls of binned(), checked under SpecCache.                 *)
(***************************************************************************)
\* What binned(temp_bins) gives when nothing else runs and nothing is cached.
LoneBinned(c, b) ==
    CHOOSE result \in
        {IF r.err = "none" THEN [err |-> "none", val |-> Quantity(r.val, "cm5/K")] ELSE r
            : r \in {BinnedArrCompute(cfs[c], tbs[b])}} : TRUE

\* C19: however calls of binned() on one contribution function overlap, on
\* the same or on different bins, every call that has ended has returned
\* (or raised) what a lone call on its bins returns, every entry of the two
\* caches is the value of a lone call on the bins of its key, no key has
\* two entries, and the bins of every call that has returned have their
\* entry.
C19_OverlappingCallsAsSequential ==
    \A c \in 1..Len(cfs), b \in 1..Len(tbs) : \A lone \in {LoneBinned(c, b)} :
        /\ \A t \in 1..Len(thr.tasks) :
              (thr.tasks[t].pc = "done" /\ ObjectsOf(t) = <<c, b>>) =>
                  /\ TheValue(thr.tasks[t].val) = lone
                  /\ HasReturned(t) => CacheHit(cacheBinned, <<c, b>>)
        /\ \A e \in cacheBinned :
              e.key = <<c, b>> =>
                  /\ lone = [err |-> "none", val |-> e.val]
                  /\ \A f \in cacheBinned : f.key = e.key => f = e
        /\ \A e \in cacheArr :
              e.key = <<c, b>> =>
                  /\ lone = [err |-> "none", val |-> Quantity(e.val, "cm5/K")]
                  /\ \A f \in cacheArr : f.key = e.key => f = e

\* Witness of C19: two calls on the same bins have overlapped, neither
\* having found an entry and both having computed the values, and a call on
\* the bins with a missing edge has raised meanwhile; all three have ended.
C19_Witness ==
    /\ Len(thr.tasks) = 3
    /\ \A t \in 1..3 : thr.tasks[t].pc = "done"
    /\ ObjectsOf(1) = <<1, 1>> /\ thr.tasks[1].computed /\ thr.tasks[1].seen = {}
    /\ ObjectsOf(2) = <<1, 1>> /\ thr.tasks[2].computed /\ thr.tasks[2].seen = {}
    /\ ObjectsOf(3) = <<1, 3>> /\ TheValue(thr.tasks[3].val).err = "ValueError"
    /\ ReturnedValue(1) = ReturnedValue(2)
    /\ {e.key : e \in cacheBinned} = {<<1, 1>>}

(***************************************************************************)
(* The frame of a warm-up run, checked under SpecDriver.                   *)
(***************************************************************************)
\* A warm-up run has been started.
SubRunStarted == drv.start_guess # <<>>

\* C20: from the start of the warm-up run for bin i on, every array that
\* the log-probability is evaluated on has, in every component other than
\* i, the value the guess had when the run started, and so has the guess
\* itself, until the next run starts: only component i varies.
C20_OtherComponentsFrozen ==
    SubRunStarted =>
        /\ \A v \in drv.calls :
              /\ Len(v) = drv.n_dem
              /\ \A j \in 1..drv.n_dem : j # drv.ran => v[j] = drv.start_guess[j]
        /\ \A j \in 1..drv.n_dem : j # drv.ran => drv.dem_guess[j] = drv.start_guess[j]

\* Witness of C20: the warm-up run for the second of two bins has taken its
\* steps, the log-probability having been evaluated on three arrays or more
\* that differ in the second component, the first component being the mean
\* that the first run left and not the initial guess.
C20_Witness ==
    /\ drv.pc = "subrun_steps"
    /\ drv.n_dem = 2
    /\ drv.ran = 2
    /\ drv.step = WarmupSteps
    /\ Cardinality(drv.calls) >= 3
    /\ Cardinality({v[2] : v \in drv.calls}) >= 3
    /\ drv.start_guess[1] # RInt(InitialGuess)
    /\ drv.dem_guess[2] # drv.start_guess[2]

(***************************************************************************)
(* What a warm-up run hands on, checked under SpecDriver.                  *)
(***************************************************************************)
\* The values of the walkers at the last step of the last completed run.
LastStep == drv.chain[Len(drv.chain)]

\* C21: once the warm-up run for bin i has ended, component i of the guess
\* is the mean of the values of all walkers over the last 10 steps of its
\* chain, and the values of the walkers at its last step are handed on: they
\* are the entries of dimension i in the initial state of the joint run.
C21_MeanKeptLastStepCarried ==
    /\ SubRunCompleted => drv.dem_guess[drv.ran] = MeanOfTail(drv.chain)
    /\ IsSome(drv.joint) =>
          \A w \in 1..Walkers :
              \E row \in 1..Len(TheValue(drv.joint).initial_state) :
                  TheValue(drv.joint).initial_state[row][drv.ran] = LastStep[w]

\* What the code does instead: the mean is written to the guess and the
\* last step to parameter_guess, and the joint run is started from the
\* guess alone; parameter_guess is not read again.
LastStepStoredNotCarried ==
    /\ SubRunCompleted =>
          /\ drv.dem_guess[drv.ran] = MeanOfTail(drv.chain)
          /\ \A w \in 1..Walkers : drv.parameter_guess[w][drv.ran] = LastStep[w]
    /\ IsSome(drv.joint) => TheValue(drv.joint).initial_state = <<drv.dem_guess>>

\* A joint run has been started after a warm-up run whose walkers ended at
\* different values, the mean being the value of none of them.
SpreadWalkersReached ==
    /\ IsSome(drv.joint)
    /\ \A w \in 1..Walkers : LastStep[w] # drv.dem_guess[drv.ran]

(***************************************************************************)
(* The order of the runs, checked under SpecDriver.                        *)
(***************************************************************************)
\* A step that starts a warm-up run, and a step that starts the joint run.
RunStarts == drv.pc = "subrun_begin" /\ drv'.pc # "subrun_begin"
JointStarts == drv.joint = Nothing /\ IsSome(drv'.joint)

\* C22: in a call of predict_dem_emcee the warm-up runs are started one
\* after the other in the order of the bins, each bin once, the run before
\* having taken all its steps; the run for bin i starts from a guess whose
\* components after i (and i itself) are the initial uniform guess, and the
\* components before i, once written by their own run, are not written
\* again; the joint run is started only when the runs for all N bins have
\* ended, and once started nothing is run again.
C22_RunsInOrderThenJoint ==
    [][/\ RunStarts =>
             /\ drv'.ran = drv.ran + 1
             /\ drv'.ran = drv.i
             /\ drv.ran > 0 => drv.step = WarmupSteps
             /\ drv'.start_guess = drv.dem_guess
             /\ \A j \in drv'.ran..drv.n_dem : drv.dem_guess[j] = RInt(InitialGuess)
       /\ drv.pc \notin {"idle", "raised"} =>
             \A j \in 1..(drv.ran - 1) : drv'.dem_guess[j] = drv.dem_guess[j]
       /\ JointStarts =>
             /\ drv.pc = "joint_begin"
             /\ drv.ran = drv.n_dem
             /\ drv.step = WarmupSteps
       /\ IsSome(drv.joint) => drv' = drv
      ]_vars

\* Witness of C22: the joint run has been started after the runs for two
\* bins, the second of which started from the mean left by the first and
\* the initial guess in its own component.
C22_Witness ==
    /\ IsSome(drv.joint)
    /\ drv.n_dem = 2
    /\ drv.ran = 2
    /\ drv.start_guess[1] = drv.dem_guess[1]
    /\ drv.start_guess[1] # RInt(InitialGuess)
    /\ drv.start_guess[2] = RInt(InitialGuess)

(***************************************************************************)
(* The sign of the sampled values, checked under SpecDriver, whose sampler *)
(* moves no walker to a position of log-probability -inf and whose initial *)
(* positions are the jittered positive guess.                              *)
(***************************************************************************)
NonNegative(x) == IsFinite(x) /\ ~RLess(x, RInt(0))
AllNonNegative(rows) == \A w \in 1..Len(rows) : \A j \in 1..Len(rows[w]) : NonNegative(rows[w][j])

\* No run is in progress: the guess is as the last completed run left it.
BetweenRuns == drv.pc \in {"subrun_begin", "joint_begin"} \/ IsSome(drv.joint)

EdgesNearSamples(cf, tb) == EdgesOffSamples(cf, tb) = {}

\* The bins of tb that hold no sample of cf under the interval rule.
EmptyBins(cf, tb) == {i \in 1..(Len(tb.edges.v) - 1) : SamplesOfBin(cf, tb, i) = {}}

\* C24: whenever binned() succeeds, every edge being within 1 K of some
\* sample temperature, every bin holds at least one sample under the
\* interval rule and no returned value is NaN.
C24_SucceededBinsNonEmpty ==
    (out.op = "binned" /\ out.err = "none") =>
        /\ EdgesNearSamples(BinningCf, BinningTb)
        /\ EmptyBins(BinningCf, BinningTb) = {}
        /\ \A i \in 1..Len(out.val.v) : ~IsNaN(out.val.v[i])

\* What the check of the edges does give: binned() succeeds only when every
\* edge is within the tolerance of a sample, and then the bins without a
\* sample are exactly the bins whose value is NaN.
SucceededEdgesNearAndEmptyIsNaN ==
    (out.op = "binned" /\ out.err = "none") =>
        /\ EdgesNearSamples(BinningCf, BinningTb)
        /\ \A i \in 1..Len(out.val.v) :
              IsNaN(out.val.v[i]) <=> i \in EmptyBins(BinningCf, BinningTb)

\* binned() has succeeded on the samples 5, 1, 1 K and the edges 0, 1, 4 K:
\* each edge is within 1 K of a sample, the bin (1, 4] holds none, and its
\* value is NaN.
EmptyBinReturned ==
    /\ out.op = "binned"
    /\ out.err = "none"
    /\ BinningCf.temps = UnsortedTemps
    /\ BinningTb.edges = Quantity(<<0, 1, 4>>, "K")
    /\ EmptyBins(BinningCf, BinningTb) = {2}
    /\ ~IsNaN(out.val.v[1])
    /\ IsNaN(out.val.v[2])

====
